---- MODULE Spec2Model ----
(***************************************************************************)
(* Model of the scrape / store / ask service of main.py and scraper.py.    *)
(* Text is modelled as sequences of one-character strings so that          *)
(* tokenising, lower-casing, trimming and regular-expression searches are  *)
(* computed, not assumed.                                                  *)
(***************************************************************************)
EXTENDS Integers, Sequences, FiniteSets, TLC

(***************************************************************************)
(* Characters and the str / re primitives the handlers use.                *)
(***************************************************************************)
LowerSeq == <<"a","b","c","d","e","f","g","h","i","j","k","l","m","n","o","p","q","r","s","t","u","v","w","x","y","z">>
UpperSeq == <<"A","B","C","D","E","F","G","H","I","J","K","L","M","N","O","P","Q","R","S","T","U","V","W","X","Y","Z">>
Lowercase == {LowerSeq[i] : i \in 1..26}
Uppercase == {UpperSeq[i] : i \in 1..26}
Digits == {"0", "1", "2", "3", "4", "5", "6", "7", "8", "9"}
\* \w of the re module on ASCII text: letters, digits and the underscore.
WordChars == Lowercase \cup Uppercase \cup Digits \cup {"_"}
\* str.isalnum on one ASCII character.
AlnumChars == Lowercase \cup Uppercase \cup Digits
\* \s of the re module and the characters str.strip() removes.
Whitespace == {" ", "\n", "\t"}

\* The JSON null / Python None, kept apart from every text (no text holds
\* a several-character element).
None == <<"<None>">>

IsWordChar(c) == c \in WordChars

\* str.lower on one character.
LowerChar(c) ==
    IF c \in Uppercase THEN LowerSeq[CHOOSE i \in 1..26 : UpperSeq[i] = c] ELSE c

\* str.lower.
Lower(s) == [i \in 1..Len(s) |-> LowerChar(s[i])]

\* str.isalnum: non-empty and every character alphanumeric.
IsAlnum(s) == s # <<>> /\ \A i \in 1..Len(s) : s[i] \in AlnumChars

Range(s) == {s[i] : i \in 1..Len(s)}

\* re.findall(r"\b\w+\b", s) from position i with the run cur open: the
\* maximal runs of \w characters, left to right.
RECURSIVE WordRuns(_, _, _)
WordRuns(s, i, cur) ==
    IF i > Len(s)
    THEN (IF cur = <<>> THEN <<>> ELSE <<cur>>)
    ELSE IF IsWordChar(s[i])
         THEN WordRuns(s, i + 1, Append(cur, s[i]))
         ELSE (IF cur = <<>> THEN <<>> ELSE <<cur>>) \o WordRuns(s, i + 1, <<>>)

ReFindallWords(s) == WordRuns(s, 1, <<>>)

\* \b at offset p of text (p characters lie before it): exactly one of the
\* two neighbours is a \w character, the ends of the text counting as not.
IsBoundary(text, p) ==
    LET before == p >= 1 /\ IsWordChar(text[p])
        after  == p < Len(text) /\ IsWordChar(text[p + 1])
    IN  before # after

\* A search for token anywhere in text, word boundaries left out.
ReSearchSubstring(token, text) ==
    \E p \in 0..(Len(text) - Len(token)) :
        SubSeq(text, p + 1, p + Len(token)) = token

\* re.search(r'\b' + re.escape(token) + r'\b', text) finds a match.
ReSearchWord(token, text) ==
    \E p \in 0..(Len(text) - Len(token)) :
        /\ SubSeq(text, p + 1, p + Len(token)) = token
        /\ IsBoundary(text, p)
        /\ IsBoundary(text, p + Len(token))

\* sep.join(parts) from part i on.
RECURSIVE JoinFrom(_, _, _)
JoinFrom(parts, sep, i) ==
    IF i > Len(parts) THEN <<>>
    ELSE IF i = Len(parts) THEN parts[i]
    ELSE parts[i] \o sep \o JoinFrom(parts, sep, i + 1)

Join(parts, sep) == JoinFrom(parts, sep, 1)

(***************************************************************************)
(* find_relevant_content                                                   *)
(***************************************************************************)
\* The stop-word set of find_relevant_content.
stop_words == {
    <<"a">>, <<"a","n">>, <<"t","h","e">>, <<"a","n","d">>, <<"o","r">>, <<"i","s">>,
    <<"a","r","e">>, <<"w","a","s">>, <<"w","e","r","e">>, <<"b","e">>, <<"b","e","e","n">>,
    <<"b","e","i","n","g">>, <<"h","a","v","e">>, <<"h","a","s">>, <<"h","a","d">>,
    <<"d","o">>, <<"d","o","e","s">>, <<"d","i","d">>, <<"c","a","n">>,
    <<"c","o","u","l","d">>, <<"w","i","l","l">>, <<"w","o","u","l","d">>,
    <<"s","h","a","l","l">>, <<"s","h","o","u","l","d">>, <<"m","a","y">>,
    <<"m","i","g","h","t">>, <<"m","u","s","t">>, <<"i","t","'","s">>, <<"d","o","n","'","t">>,
    <<"i","'","m">>, <<"y","o","u","'","r","e">>, <<"h","e","'","s">>, <<"s","h","e","'","s">>,
    <<"w","e","'","r","e">>, <<"t","h","e","y","'","r","e">>, <<"i","s","n","'","t">>,
    <<"a","r","e","n","'","t">>, <<"w","a","s","n","'","t">>, <<"w","e","r","e","n","'","t">>,
    <<"h","a","v","e","n","'","t">>, <<"h","a","s","n","'","t">>, <<"h","a","d","n","'","t">>,
    <<"d","o","e","s","n","'","t">>, <<"d","i","d","n","'","t">>, <<"c","a","n","'","t">>,
    <<"c","o","u","l","d","n","'","t">>, <<"w","o","n","'","t">>,
    <<"w","o","u","l","d","n","'","t">>, <<"s","h","a","n","'","t">>,
    <<"s","h","o","u","l","d","n","'","t">>, <<"m","a","y","n","'","t">>,
    <<"m","i","g","h","t","n","'","t">>, <<"m","u","s","t","n","'","t">>, <<"y","o","u">>,
    <<"i">>, <<"h","e">>, <<"s","h","e">>, <<"i","t">>, <<"w","e">>, <<"t","h","e","y">>,
    <<"t","h","i","s">>, <<"t","h","a","t">>, <<"t","h","e","s","e">>, <<"t","h","o","s","e">>,
    <<"m","y">>, <<"y","o","u","r">>, <<"h","i","s">>, <<"h","e","r">>, <<"i","t","s">>,
    <<"o","u","r">>, <<"t","h","e","i","r">>, <<"h","e","r","e">>, <<"t","h","e","r","e">>,
    <<"w","h","a","t">>, <<"w","h","e","r","e">>, <<"w","h","e","n">>, <<"w","h","y">>,
    <<"h","o","w">>, <<"w","h","o">>, <<"w","h","o","m">>, <<"w","h","o","s","e">>,
    <<"w","i","t","h">>, <<"w","i","t","h","o","u","t">>, <<"t","o">>, <<"f","r","o","m">>,
    <<"u","p">>, <<"d","o","w","n">>, <<"i","n">>, <<"o","u","t">>, <<"o","n">>,
    <<"o","f","f">>, <<"o","v","e","r">>, <<"u","n","d","e","r">>, <<"a","g","a","i","n">>,
    <<"f","u","r","t","h","e","r">>, <<"t","h","e","n">>, <<"o","n","c","e">>, <<"a","l","l">>,
    <<"a","n","y">>, <<"b","o","t","h">>, <<"e","a","c","h">>, <<"f","e","w">>,
    <<"m","a","n","y">>, <<"m","o","r","e">>, <<"m","o","s","t">>, <<"s","o","m","e">>,
    <<"s","u","c","h">>, <<"n","o">>, <<"n","o","r">>, <<"n","o","t">>, <<"o","n","l","y">>,
    <<"o","w","n">>, <<"s","a","m","e">>, <<"s","o">>, <<"t","h","a","n">>, <<"t","o","o">>,
    <<"v","e","r","y">>, <<"s">>, <<"t">>, <<"m">>, <<"d">>, <<"l","l">>, <<"r","e">>,
    <<"v","e">>, <<"y">>
}

\* query_tokens: the \w runs of the query that are alphanumeric, lower-cased.
QueryTokens(query) ==
    LET kept == SelectSeq(ReFindallWords(query), IsAlnum)
    IN  [i \in 1..Len(kept) |-> Lower(kept[i])]

\* The query tokens with the stop-word filter left out.
MeaningfulTokens_KeepStopWords(query) == Range(QueryTokens(query))

\* meaningful_query_tokens: the query tokens that are no stop-words.

MeaningfulTokens(query) == {token \in Range(QueryTokens(query)) : token \notin stop_words}

\* isinstance(content_obj, dict) and 'content' in content_obj
IsContentObj(content_obj) == "content" \in DOMAIN content_obj

\* page_text: for every section " {heading} " then the paragraphs joined by " ".
RECURSIVE PageTextFrom(_, _)
PageTextFrom(sections, i) ==
    IF i > Len(sections) THEN <<>>
    ELSE LET heading == IF sections[i].heading = None THEN <<>> ELSE sections[i].heading
         IN  <<" ">> \o heading \o <<" ">> \o Join(sections[i].paragraphs, <<" ">>)
                 \o PageTextFrom(sections, i + 1)

PageText(content_obj) == PageTextFrom(content_obj.content, 1)

\* The token loop with a search that takes a token inside a longer word.
PageIsRelevant_InsideWord(content_obj, meaningful_query_tokens) ==
    \E token \in meaningful_query_tokens :
        ReSearchSubstring(token, Lower(PageText(content_obj)))

\* The token loop of one page: some meaningful token is found in the
\* lower-cased page text between word boundaries.
PageIsRelevant(content_obj, meaningful_query_tokens) ==
    \E token \in meaningful_query_tokens :
        ReSearchWord(token, Lower(PageText(content_obj)))

\* The page loop with a relevant page put in front of the list.
RECURSIVE ScanPages_Prepend(_, _, _, _, _)
ScanPages_Prepend(content_array, meaningful_query_tokens, i, relevant_content, meaningful_match_found) ==
    IF i > Len(content_array) THEN <<relevant_content, meaningful_match_found>>
    ELSE IF ~IsContentObj(content_array[i])
         THEN ScanPages_Prepend(content_array, meaningful_query_tokens, i + 1,
                                relevant_content, meaningful_match_found)
         ELSE LET page_is_relevant ==
                      PageIsRelevant(content_array[i], meaningful_query_tokens)
              IN  ScanPages_Prepend(content_array, meaningful_query_tokens, i + 1,
                                    IF page_is_relevant
                                    THEN <<content_array[i]>> \o relevant_content
                                    ELSE relevant_content,
                                    meaningful_match_found \/ page_is_relevant)

\* The page loop with the flag set for every page it scans, matched or not.
RECURSIVE ScanPages_FlagOutsideIf(_, _, _, _, _)
ScanPages_FlagOutsideIf(content_array, meaningful_query_tokens, i, relevant_content, meaningful_match_found) ==
    IF i > Len(content_array) THEN <<relevant_content, meaningful_match_found>>
    ELSE IF ~IsContentObj(content_array[i])
         THEN ScanPages_FlagOutsideIf(content_array, meaningful_query_tokens, i + 1,
                                      relevant_content, meaningful_match_found)
         ELSE LET page_is_relevant ==
                      PageIsRelevant(content_array[i], meaningful_query_tokens)
              IN  ScanPages_FlagOutsideIf(content_array, meaningful_query_tokens, i + 1,
                                          IF page_is_relevant
                                          THEN Append(relevant_content, content_array[i])
                                          ELSE relevant_content,
                                          TRUE)

\* The page loop from page i on, with the list and the flag built so far.
RECURSIVE ScanPages(_, _, _, _, _)
ScanPages(content_array, meaningful_query_tokens, i, relevant_content, meaningful_match_found) ==
    IF i > Len(content_array) THEN <<relevant_content, meaningful_match_found>>
    ELSE IF ~IsContentObj(content_array[i])
         THEN ScanPages(content_array, meaningful_query_tokens, i + 1,
                        relevant_content, meaningful_match_found)
         ELSE LET page_is_relevant ==
                      PageIsRelevant(content_array[i], meaningful_query_tokens)
              IN  ScanPages(content_array, meaningful_query_tokens, i + 1,
                            IF page_is_relevant
                            THEN Append(relevant_content, content_array[i])
                            ELSE relevant_content,
                            meaningful_match_found \/ page_is_relevant)

\* find_relevant_content without its early return, the flag starting as
\* "the query has a meaningful token".
find_relevant_content_NoGuard(content_array, query) ==
    ScanPages(content_array, MeaningfulTokens(query), 1, <<>>, MeaningfulTokens(query) # {})

\* find_relevant_content: <<relevant_content, meaningful_match_found>>.
find_relevant_content(content_array, query) ==
    IF content_array = <<>> \/ QueryTokens(query) = <<>>
    THEN <<<<>>, FALSE>>
    ELSE ScanPages(content_array, MeaningfulTokens(query), 1, <<>>, FALSE)

(***************************************************************************)
(* The answer quality check and the fixed answers of the AI handlers.      *)
(***************************************************************************)
\* The index of the first / last character of s that is no whitespace
\* (Len(s) + 1 / 0 when there is none).
FirstNonSpace(s) ==
    IF \E i \in 1..Len(s) : s[i] \notin Whitespace
    THEN CHOOSE i \in 1..Len(s) :
             s[i] \notin Whitespace /\ \A j \in 1..(i - 1) : s[j] \in Whitespace
    ELSE Len(s) + 1

LastNonSpace(s) ==
    IF \E i \in 1..Len(s) : s[i] \notin Whitespace
    THEN CHOOSE i \in 1..Len(s) :
             s[i] \notin Whitespace /\ \A j \in (i + 1)..Len(s) : s[j] \in Whitespace
    ELSE 0

\* str.strip.
Strip(s) == SubSeq(s, FirstNonSpace(s), LastNonSpace(s))

\* phrase in text (substring test).
Contains(phrase, text) ==
    \E p \in 0..(Len(text) - Len(phrase)) : SubSeq(text, p + 1, p + Len(phrase)) = phrase

PhraseSorry == <<"s","o","r","r","y",","," ","i"," ","a","m"," ","u","n","a","b","l","e">>
PhraseCannot == <<"c","a","n","n","o","t"," ","p","r","o","v","i","d","e"," ","a"," ","h","e","l","p","f","u","l"," ","r","e","s","p","o","n","s","e">>
PhraseNoInfo == <<"n","o"," ","i","n","f","o","r","m","a","t","i","o","n"," ","a","v","a","i","l","a","b","l","e">>
PhraseBased == <<"b","a","s","e","d"," ","o","n"," ","t","h","e"," ","t","e","x","t"," ","p","r","o","v","i","d","e","d">>
PhraseNotAvailable == <<"i","n","f","o","r","m","a","t","i","o","n"," ","i","s"," ","n","o","t"," ","a","v","a","i","l","a","b","l","e">>

unhelpful_phrases == {PhraseSorry, PhraseCannot, PhraseNoInfo, PhraseBased, PhraseNotAvailable}

\* The shortest trimmed answer that is not unhelpful by its length.
MinHelpfulLen == 15

\* is_unhelpful with "<" written "<=": an answer of MinHelpfulLen characters
\* is refused too.
IsUnhelpful_OffByOne(ai_response) ==
    \/ ai_response = None
    \/ ai_response = <<>>
    \/ Len(Strip(ai_response)) <= MinHelpfulLen
    \/ \E phrase \in unhelpful_phrases : Contains(phrase, Lower(ai_response))

\* is_unhelpful: no answer, a trimmed answer under MinHelpfulLen characters,
\* or a lower-cased answer holding one of the phrases.
IsUnhelpful(ai_response) ==
    \/ ai_response = None
    \/ ai_response = <<>>
    \/ Len(Strip(ai_response)) < MinHelpfulLen
    \/ \E phrase \in unhelpful_phrases : Contains(phrase, Lower(ai_response))

\* The fixed answers of ask_stored and of the 'ai' and 'crawl_ai' types.
MsgNoContent == <<"I"," ","c","a","n","n","o","t"," ","p","r","o","v","i","d","e"," ","a"," ","h","e","l","p","f","u","l"," ","r","e","s","p","o","n","s","e"," ","(","n","o"," ","c","o","n","t","e","n","t"," ","a","v","a","i","l","a","b","l","e",")",".">>
MsgNoMatch == <<"I"," ","c","a","n","n","o","t"," ","p","r","o","v","i","d","e"," ","a"," ","h","e","l","p","f","u","l"," ","r","e","s","p","o","n","s","e"," ","b","a","s","e","d"," ","o","n"," ","t","h","e"," ","s","t","o","r","e","d"," ","c","o","n","t","e","n","t"," ","a","n","d"," ","y","o","u","r"," ","q","u","e","r","y",".">>
MsgNoText == <<"I"," ","c","a","n","n","o","t"," ","p","r","o","v","i","d","e"," ","a"," ","h","e","l","p","f","u","l"," ","r","e","s","p","o","n","s","e"," ","d","u","e"," ","t","o"," ","a","n"," ","i","s","s","u","e"," ","p","r","o","c","e","s","s","i","n","g"," ","t","h","e"," ","s","t","o","r","e","d"," ","c","o","n","t","e","n","t",".">>
MsgUnhelpful == <<"I"," ","c","a","n","n","o","t"," ","p","r","o","v","i","d","e"," ","a"," ","h","e","l","p","f","u","l"," ","r","e","s","p","o","n","s","e"," ","b","a","s","e","d"," ","o","n"," ","t","h","e"," ","a","v","a","i","l","a","b","l","e"," ","i","n","f","o","r","m","a","t","i","o","n",".">>
MsgNoExtract == <<"C","o","u","l","d"," ","n","o","t"," ","e","x","t","r","a","c","t"," ","t","e","x","t"," ","c","o","n","t","e","n","t"," ","f","r","o","m"," ","t","h","e"," ","w","e","b","s","i","t","e","(","s",")",".">>
MsgNoSentence == <<"I"," ","c","a","n","n","o","t"," ","p","r","o","v","i","d","e"," ","a"," ","h","e","l","p","f","u","l"," ","r","e","s","p","o","n","s","e"," ","b","a","s","e","d"," ","o","n"," ","t","h","e"," ","w","e","b","s","i","t","e"," ","c","o","n","t","e","n","t"," ","a","n","d"," ","y","o","u","r"," ","q","u","e","r","y",".">>
MsgCrawlNoExtract == <<"C","o","u","l","d"," ","n","o","t"," ","e","x","t","r","a","c","t"," ","t","e","x","t"," ","c","o","n","t","e","n","t"," ","f","r","o","m"," ","t","h","e"," ","c","r","a","w","l","e","d"," ","w","e","b","s","i","t","e","(","s",")",".">>
MsgCrawlNoSentence == <<"I"," ","c","a","n","n","o","t"," ","p","r","o","v","i","d","e"," ","a"," ","h","e","l","p","f","u","l"," ","r","e","s","p","o","n","s","e"," ","b","a","s","e","d"," ","o","n"," ","t","h","e"," ","c","r","a","w","l","e","d"," ","w","e","b","s","i","t","e"," ","c","o","n","t","e","n","t"," ","a","n","d"," ","y","o","u","r"," ","q","u","e","r","y",".">>
MsgCrawlUnhelpful == <<"I"," ","c","a","n","n","o","t"," ","p","r","o","v","i","d","e"," ","a"," ","h","e","l","p","f","u","l"," ","r","e","s","p","o","n","s","e"," ","b","a","s","e","d"," ","o","n"," ","t","h","e"," ","a","v","a","i","l","a","b","l","e"," ","i","n","f","o","r","m","a","t","i","o","n"," ","f","r","o","m"," ","t","h","e"," ","c","r","a","w","l","e","d"," ","w","e","b","s","i","t","e",".">>

(***************************************************************************)
(* find_relevant_sentences                                                 *)
(***************************************************************************)
\* The stop-word set of find_relevant_sentences.
sentence_stop_words == {
    <<"a">>, <<"a","n">>, <<"t","h","e">>, <<"i","s">>, <<"i","n">>, <<"i","t">>,
    <<"o","f">>, <<"a","n","d">>, <<"t","o">>
}

SentenceEnd == {".", "!", "?"}

NotSentenceStopWord(w) == Lower(w) \notin sentence_stop_words

\* meaningful_query_words with the stop-words left in.
SentenceQueryWords_KeepStopWords(query) ==
    LET kept == ReFindallWords(query)
    IN  [i \in 1..Len(kept) |-> Lower(kept[i])]

\* meaningful_query_words: the \w runs of the query, lower-cased, that are
\* no stop-words (a list: repeated words stay).
SentenceQueryWords(query) ==
    LET kept == SelectSeq(ReFindallWords(query), NotSentenceStopWord)
    IN  [i \in 1..Len(kept) |-> Lower(kept[i])]

\* The first index from i on that holds no whitespace (Len + 1 if none).
RECURSIVE SkipSpace(_, _)
SkipSpace(text, i) ==
    IF i <= Len(text) /\ text[i] \in Whitespace THEN SkipSpace(text, i + 1) ELSE i

\* re.split(r'(?<=[.!?])\s+', text) from position i with the piece cur open:
\* the text is cut at every whitespace run that follows ".", "!" or "?".
RECURSIVE SplitSentencesFrom(_, _, _)
SplitSentencesFrom(text, i, cur) ==
    IF i > Len(text) THEN <<cur>>
    ELSE IF text[i] \in Whitespace /\ i > 1 /\ text[i - 1] \in SentenceEnd
         THEN <<cur>> \o SplitSentencesFrom(text, SkipSpace(text, i), <<>>)
         ELSE SplitSentencesFrom(text, i + 1, Append(cur, text[i]))

SplitSentences(text) == SplitSentencesFrom(text, 1, <<>>)

\* The sentence loop from sentence i on.
RECURSIVE RelevantSentencesFrom(_, _, _)
RelevantSentencesFrom(sentences, words, i) ==
    IF i > Len(sentences) THEN <<>>
    ELSE (IF \E k \in 1..Len(words) : ReSearchWord(words[k], Lower(sentences[i]))
          THEN <<Strip(sentences[i])>> ELSE <<>>)
         \o RelevantSentencesFrom(sentences, words, i + 1)

find_relevant_sentences(text_content, query) ==
    IF query = <<>> \/ text_content = <<>> THEN <<>>
    ELSE IF SentenceQueryWords(query) = <<>> THEN <<>>
    ELSE RelevantSentencesFrom(SplitSentences(text_content), SentenceQueryWords(query), 1)

(***************************************************************************)
(* What scrape_website returns, and what the handlers make of it.          *)
(***************************************************************************)
\* Python's None where a dict is expected.
PyNone == [none |-> TRUE]

\* item['content'] of GenericSpider.parse_item: a dict with these four keys.
\* The two values differ in whether the page had a section with text.
SpiderContentEmpty ==
    [live_with_text |-> None, next_destination_prompt |-> None,
     static_sections |-> <<>>, dynamic_sections |-> <<>>]

SpiderContentText ==
    [live_with_text |-> None, next_destination_prompt |-> None,
     static_sections |-> <<[heading |-> [text |-> <<"A","r","t">>, tag |-> "h1"],
                            paragraphs |-> <<<<"f","i","n","e"," ","a","r","t"," ","h","e","r","e">>>>]>>,
     dynamic_sections |-> <<>>]

\* The error texts of scrape_website.
ErrTimedOut == "Scraping operation timed out."
ErrCrawlFailed == "crawl failed"
ErrItem == "item error"
ErrNoData == "No data scraped or unknown error. Check Scrapy logs for details."

\* scrape_website(url, 'beautify') returns one of: an error (the wait timed
\* out, the crawl failed, the first item carries an error, the queue was
\* empty), or success with first_item.get('content'), which is the spider's
\* dict, or None when the first item read is one a raw crawl produced.
ScrapeReturns ==
    {[status |-> "error", error |-> m] : m \in {ErrTimedOut, ErrCrawlFailed, ErrItem, ErrNoData}}
    \cup {[status |-> "success", data |-> d] :
              d \in {SpiderContentEmpty, SpiderContentText, PyNone}}

\* heading_data.get("text", "") if isinstance(heading_data, dict) else
\* heading_data, then "or None".  A dict heading is a record, a str heading
\* is [str |-> text].
HeadingText(section) ==
    LET heading_text ==
            IF "heading" \notin DOMAIN section THEN None
            ELSE IF "text" \in DOMAIN section.heading THEN section.heading.text
            ELSE IF "str" \in DOMAIN section.heading THEN section.heading.str
            ELSE None
    IN  IF heading_text = <<>> THEN None ELSE heading_text

\* page_data["content"] for one scrape result: one unit per section of a
\* dict that has the key "sections", one unit for a non-empty str (a str is
\* [str |-> text]), nothing otherwise.
PageContentOf(scrape_data) ==
    IF "sections" \in DOMAIN scrape_data
    THEN [k \in 1..Len(scrape_data.sections) |->
              [heading |-> HeadingText(scrape_data.sections[k]),
               paragraphs |-> IF "paragraphs" \in DOMAIN scrape_data.sections[k]
                              THEN scrape_data.sections[k].paragraphs ELSE <<>>]]
    ELSE IF "str" \in DOMAIN scrape_data /\ scrape_data.str # <<>>
    THEN <<[heading |-> None, paragraphs |-> <<scrape_data.str>>]>>
    ELSE <<>>

\* The text the 'ai' type adds to combined_text for one scrape result.
RECURSIVE SectionsTextFrom(_, _)
SectionsTextFrom(sections, i) ==
    IF i > Len(sections) THEN <<>>
    ELSE LET heading_text == HeadingText(sections[i])
             paragraphs == IF "paragraphs" \in DOMAIN sections[i]
                           THEN sections[i].paragraphs ELSE <<>>
         IN  (IF heading_text # None
              THEN <<"\n">> \o <<"H","e","a","d","i","n","g",":"," ">> \o heading_text \o <<"\n">> ELSE <<>>)
             \o (IF paragraphs # <<>> THEN Join(paragraphs, <<"\n">>) \o <<"\n">> ELSE <<>>)
             \o SectionsTextFrom(sections, i + 1)

CombinedTextOf(scrape_data) ==
    IF "sections" \in DOMAIN scrape_data THEN SectionsTextFrom(scrape_data.sections, 1)
    ELSE IF "str" \in DOMAIN scrape_data /\ scrape_data.str # <<>>
    THEN <<"\n">> \o scrape_data.str \o <<"\n">>
    ELSE <<>>

\* s.split(',') from position i with the field cur open.
RECURSIVE SplitCommaFrom(_, _, _)
SplitCommaFrom(s, i, cur) ==
    IF i > Len(s) THEN <<cur>>
    ELSE IF s[i] = "," THEN <<cur>> \o SplitCommaFrom(s, i + 1, <<>>)
    ELSE SplitCommaFrom(s, i + 1, Append(cur, s[i]))

NonBlank(s) == Strip(s) # <<>>

\* [url.strip() for url in urls_str.split(',') if url.strip()]
ParseUrls(urls_str) ==
    LET kept == SelectSeq(SplitCommaFrom(urls_str, 1, <<>>), NonBlank)
    IN  [i \in 1..Len(kept) |-> Strip(kept[i])]

(***************************************************************************)
(* The stored files and the prompt of ask_stored.                          *)
(***************************************************************************)
\* A file of SCRAPED_DATA_DIR is absent, holds text json.load cannot decode,
\* or holds a JSON value: a dict (a record), or a value that is no dict.
Absent == [absent |-> TRUE]
Undecodable == [undecodable |-> TRUE]
JsonList == [nondict |-> TRUE]
EmptyDict == <<>>

\* json.dump writes None as null and a str between double quotes, with a
\* backslash before every double quote and backslash of the str
\* (ensure_ascii=False leaves every other character of the model as it is).
JsonNull == <<"n","u","l","l">>
Quote == "\""
Backslash == "\\"

RECURSIVE EscapeFrom(_, _)
EscapeFrom(s, i) ==
    IF i > Len(s) THEN <<>>
    ELSE (IF s[i] \in {Quote, Backslash} THEN <<Backslash, s[i]>> ELSE <<s[i]>>)
             \o EscapeFrom(s, i + 1)

\* json.dump writing a str between quotes as it is.
DumpText_NoEscape(s) ==
    IF s = None THEN JsonNull ELSE <<Quote>> \o s \o <<Quote>>

DumpText(s) ==
    IF s = None THEN JsonNull ELSE <<Quote>> \o EscapeFrom(s, 1) \o <<Quote>>

\* json.load reads null as None and takes a str from between its quotes,
\* a backslash standing for the character after it.
RECURSIVE UnescapeFrom(_, _)
UnescapeFrom(j, i) ==
    IF i > Len(j) THEN <<>>
    ELSE IF j[i] = Backslash /\ i < Len(j)
         THEN <<j[i + 1]>> \o UnescapeFrom(j, i + 2)
         ELSE <<j[i]>> \o UnescapeFrom(j, i + 1)

LoadText(j) ==
    IF j = JsonNull THEN None ELSE UnescapeFrom(SubSeq(j, 2, Len(j) - 1), 1)

\* Lists and dicts are written member by member; the keys are str already.
DumpTexts(texts) == [i \in 1..Len(texts) |-> DumpText(texts[i])]
LoadTexts(texts) == [i \in 1..Len(texts) |-> LoadText(texts[i])]

DumpUnit(section) ==
    [heading |-> DumpText(section.heading), paragraphs |-> DumpTexts(section.paragraphs)]
LoadUnit(section) ==
    [heading |-> LoadText(section.heading), paragraphs |-> LoadTexts(section.paragraphs)]

DumpPage(page) ==
    [k \in DOMAIN page |->
        IF k = "content"
        THEN [i \in 1..Len(page.content) |-> DumpUnit(page.content[i])]
        ELSE DumpText(page[k])]
LoadPage(page) ==
    [k \in DOMAIN page |->
        IF k = "content"
        THEN [i \in 1..Len(page.content) |-> LoadUnit(page.content[i])]
        ELSE LoadText(page[k])]

\* One entry of 'errors': the url is a str of the request, the error one of
\* the fixed messages.
DumpError(entry) == [error |-> entry.error, url |-> DumpText(entry.url)]
LoadError(entry) == [error |-> entry.error, url |-> LoadText(entry.url)]

DumpValue(k, v) ==
    CASE k = "results" -> [i \in 1..Len(v) |-> DumpPage(v[i])]
      [] k = "errors" -> [i \in 1..Len(v) |-> DumpError(v[i])]
      [] k = "urls" -> DumpTexts(v)
      [] OTHER -> DumpText(v)
LoadValue(k, v) ==
    CASE k = "results" -> [i \in 1..Len(v) |-> LoadPage(v[i])]
      [] k = "errors" -> [i \in 1..Len(v) |-> LoadError(v[i])]
      [] k = "urls" -> LoadTexts(v)
      [] OTHER -> LoadText(v)

\* json.dump(data, f) of a dict, and json.load(f) of a file that decodes.
JsonDump(data) == [k \in DOMAIN data |-> DumpValue(k, data[k])]
JsonLoad(document) ==
    IF document = JsonList THEN JsonList
    ELSE [k \in DOMAIN document |-> LoadValue(k, document[k])]

\* get_stored_content: the loaded JSON value, or None when the file is
\* absent or cannot be decoded.
get_stored_content(dir, unique_code) ==
    IF dir[unique_code] \in {Absent, Undecodable} THEN PyNone
    ELSE JsonLoad(dir[unique_code])

\* "not stored_data": None and the empty dict are falsy (a non-empty list
\* is truthy).
IsFalsy(stored_data) == stored_data = PyNone \/ DOMAIN stored_data = {}

\* stored_data.get('results', []) of a dict.
ResultsOf(stored_data) ==
    IF "results" \in DOMAIN stored_data THEN stored_data.results ELSE <<>>

\* The prompt lines of a section with its paragraphs left out.
SectionPrompt_HeadingOnly(section) ==
    IF section.heading # None /\ section.heading # <<>>
    THEN <<[text |-> section.heading, line |-> "Heading"]>> ELSE <<>>

\* The prompt lines one section adds, and whether it added any.
SectionPrompt(section) ==
    (IF section.heading # None /\ section.heading # <<>>
     THEN <<[text |-> section.heading, line |-> "Heading"]>> ELSE <<>>)
    \o (IF section.paragraphs # <<>>
        THEN <<[text |-> Join(section.paragraphs, <<"\n">>), line |-> "Paragraphs"]>>
        ELSE <<>>)

RECURSIVE SectionsPromptFrom(_, _)
SectionsPromptFrom(sections, i) ==
    IF i > Len(sections) THEN <<>>
    ELSE SectionPrompt(sections[i]) \o SectionsPromptFrom(sections, i + 1)

\* The prompt loop of ask_stored from object i on: for every relevant object
\* the "--- Content from {url} ---" line, then (unless the object is
\* skipped as invalid) its sections and the "--- End of Content ---" line.
RECURSIVE PromptLinesFrom(_, _)
PromptLinesFrom(relevant_content_objects, i) ==
    IF i > Len(relevant_content_objects) THEN <<>>
    ELSE LET content_obj == relevant_content_objects[i]
         IN  <<[text |-> content_obj.url, line |-> "ContentFrom"]>>
             \o (IF ~IsContentObj(content_obj) THEN <<>>
                 ELSE SectionsPromptFrom(content_obj.content, 1)
                          \o <<[text |-> <<>>, line |-> "EndOfContent"]>>)
             \o PromptLinesFrom(relevant_content_objects, i + 1)

\* prompt_text (the instructions with the query, then the content lines) and
\* content_added.
BuildPrompt(relevant_content_objects, user_query) ==
    LET lines == PromptLinesFrom(relevant_content_objects, 1)
    IN  [prompt_text |-> <<[text |-> user_query, line |-> "Instructions"]>> \o lines,
         content_added |-> \E k \in 1..Len(lines) :
                               lines[k].line \in {"Heading", "Paragraphs"}]

(***************************************************************************)
(* The LLM provider.                                                       *)
(***************************************************************************)
\* Longest run of "x" the provider answers with.
MaxAnswerLen == 16

XRun(n) == [i \in 1..n |-> "x"]

AnswerRefund == <<"R","e","f","u","n","d","s"," ","a","r","e"," ","p","r","o","c","e","s","s","e","d"," ","w","i","t","h","i","n"," ","t","h","i","r","t","y"," ","d","a","y","s">>
AnswerSorry == <<"S","o","r","r","y",","," ","I"," ","a","m"," ","u","n","a","b","l","e"," ","t","o"," ","h","e","l","p"," ","w","i","t","h"," ","t","h","a","t",".">>
AnswerBased == <<"B","a","s","e","d"," ","o","n"," ","t","h","e"," ","t","e","x","t"," ","p","r","o","v","i","d","e","d",","," ","a","r","t"," ","i","s"," ","f","i","n","e",".">>
AnswerNoInfo == <<"T","h","e","r","e"," ","i","s"," ","N","o"," ","I","n","f","o","r","m","a","t","i","o","n"," ","A","v","a","i","l","a","b","l","e"," ","h","e","r","e",".">>
AnswerNotAvailable == <<"T","h","a","t"," ","i","n","f","o","r","m","a","t","i","o","n"," ","i","s"," ","n","o","t"," ","a","v","a","i","l","a","b","l","e",".">>

\* The message content the provider may answer with: runs of every length
\* around MinHelpfulLen, runs wrapped in whitespace, a substantive answer,
\* answers holding one of the phrases, and the fixed unhelpful answer.
ProviderContents ==
    {XRun(n) : n \in 0..MaxAnswerLen}
    \cup {<<" ">> \o XRun(MinHelpfulLen - 1) \o <<"\n">>,
          <<"\t">> \o XRun(MinHelpfulLen) \o <<" ">>,
          <<" ", "\n">>}
    \cup {AnswerRefund, AnswerSorry, AnswerBased, AnswerNoInfo, AnswerNotAvailable,
          MsgUnhelpful}

\* chat.completions.create raises, answers without choices, or answers with
\* a message content.
ProviderOutcomes ==
    {[kind |-> "raise"], [kind |-> "no_choices"]}
    \cup {[content |-> c, kind |-> "content"] : c \in ProviderContents}

\* What ask_llama returns for a provider outcome: the stripped content, or
\* None.
LlamaReturn(outcome) ==
    IF outcome.kind = "content" THEN Strip(outcome.content) ELSE None

(***************************************************************************)
(* Inputs of the relevance filter.                                         *)
(***************************************************************************)
\* Longest content collection handed to find_relevant_content.
MaxPages == 3

\* Only the longer word "party".
PartyPage ==
    [content |-> <<[heading |-> None, paragraphs |-> <<<<"p","a","r","t","y">>>>]>>, url |-> <<"p">>]

\* Heading "Art" in capitals, a paragraph of stop-words.
ArtPage ==
    [content |-> <<[heading |-> <<"A","r","t">>, paragraphs |-> <<<<"t","h","e"," ","i","s"," ","a">>>>]>>, url |-> <<"a">>]

\* "ar" and "t" in two paragraphs, "par" and "t" across a heading.
SplitPage ==
    [content |-> <<[heading |-> None, paragraphs |-> <<<<"a","r">>, <<"t">>>>],
        [heading |-> <<"t">>, paragraphs |-> <<<<"p","a","r">>>>]>>,
     url |-> <<"s">>]

\* "art" next to punctuation, and inside "art_x".
PunctPage ==
    [content |-> <<[heading |-> None, paragraphs |-> <<<<"f","i","n","e"," ","a","r","t",","," ","h","e","r","e">>>>],
        [heading |-> None, paragraphs |-> <<<<"a","r","t","_","x">>>>]>>,
     url |-> <<"q">>]

\* Stop-words only.
StopPage ==
    [content |-> <<[heading |-> <<"T","h","e">>, paragraphs |-> <<<<"i","t"," ","i","s"," ","w","h","a","t"," ","i","t"," ","i","s">>>>]>>, url |-> <<"w">>]

\* A page with no section.
EmptyPage ==
    [content |-> <<>>, url |-> <<"e">>]

\* A member of the collection that has no 'content' key.
InvalidObj == [url |-> <<"i">>]

\* A heading with "policy", nothing about refunds.
PolicyPage ==
    [content |-> <<[heading |-> <<"P","r","i","v","a","c","y"," ","p","o","l","i","c","y">>, paragraphs |-> <<<<"W","e"," ","k","e","e","p"," ","i","t",".">>>>]>>, url |-> <<"y">>]

\* "Refunds", the longer word only.
RefundsPage ==
    [content |-> <<[heading |-> None, paragraphs |-> <<<<"R","e","f","u","n","d","s",":"," ","3","0"," ","d","a","y","s">>>>]>>, url |-> <<"r">>]

\* "refund" as a word of its own.
RefundPage ==
    [content |-> <<[heading |-> <<"N","o"," ","r","e","f","u","n","d">>, paragraphs |-> <<>>]>>, url |-> <<"n">>]

\* A page whose only unit has no heading and no paragraph.
BlankUnitPage ==
    [content |-> <<[heading |-> None, paragraphs |-> <<>>]>>, url |-> <<"b">>]

PageSet == {PartyPage, ArtPage, SplitPage, PunctPage, StopPage, EmptyPage, InvalidObj}

RECURSIVE SeqsUpTo(_, _)
SeqsUpTo(S, n) ==
    IF n = 0 THEN {<<>>}
    ELSE LET shorter == SeqsUpTo(S, n - 1)
         IN  shorter \cup {Append(s, x) : s \in {t \in shorter : Len(t) = n - 1}, x \in S}

ContentArrays == SeqsUpTo(PageSet, MaxPages)

QArt == <<"a","r","t">>
QArtCaps == <<"W","h","a","t"," ","i","s"," ","A","R","T","?">>
QStop == <<"w","h","a","t"," ","i","s"," ","t","h","e">>
QContraction == <<"i","t","'","s">>
QEmpty == <<>>
QPunct == <<"?","!">>
QParty == <<"p","a","r","t","y">>
QPar == <<"p","a","r">>
QUnderscore == <<"a","r","t","_">>
QAr == <<"a","r"," ","t","_","x">>
QFine == <<"t","h","e"," ","f","i","n","e"," ","p","r","i","n","t">>

QRefund == <<"w","h","a","t"," ","i","s"," ","t","h","e"," ","r","e","f","u","n","d"," ","p","o","l","i","c","y">>

QuerySet == {QArt, QArtCaps, QStop, QContraction, QEmpty, QPunct, QParty, QPar, QUnderscore, QAr, QFine}

(***************************************************************************)
(* Inputs of the AI handlers.                                              *)
(***************************************************************************)
UrlX == <<"x">>
UrlY == <<"y">>
UrlZ == <<"z">>

\* The identifiers asked for: a stored one, one never stored, and "" for a
\* request without unique_code.
Codes == {"c1", "c2"}
NoCode == ""

\* Names of agents are str like any other.
AgentAcme == <<"A","c","m","e">>
UnknownAgent == <<"U","n","k","n","o","w","n"," ","A","g","e","n","t">>

StoredRecord(results) ==
    [results |-> results, errors |-> <<>>, urls |-> <<UrlX>>, agent_name |-> AgentAcme]

\* The files ask_stored may find under an identifier: none, an undecodable
\* one, JSON that is no record of an agent, and records whose results hold
\* no page, pages with text, pages without a section, or an invalid object.
AskFiles ==
    {Absent, Undecodable, JsonList}
    \cup {JsonDump(data) : data \in
              {[urls |-> <<UrlX>>, agent_name |-> AgentAcme],
               StoredRecord(<<>>),
               StoredRecord(<<EmptyPage>>),
               StoredRecord(<<PartyPage>>),
               StoredRecord(<<StopPage, ArtPage, PartyPage>>),
               StoredRecord(<<InvalidObj, PunctPage>>),
               StoredRecord(<<PolicyPage>>),
               StoredRecord(<<RefundsPage, PartyPage>>),
               StoredRecord(<<RefundPage>>),
               StoredRecord(<<BlankUnitPage, ArtPage, PunctPage>>)}}
    \cup {EmptyDict}

AskQueries == {QEmpty, QArt, QArtCaps, QStop, QParty, QFine, QRefund}

\* The url parameter of /scrape.
ScrapeUrlStrings == {<<>>, <<" ", ",">>, UrlX, <<"x",","," ","y">>}

\* The request bodies of update_agent: no url, one new url, a stored and a
\* new url, the same new url twice, and a url among blanks.
UpdateUrlStrings == {<<>>, UrlY, <<"x",",","y">>, <<"y",",","y">>, <<" ","z"," ",",">>}

\* What scrape_website returns to update_agent here: an error, or a page.
UpdateScrapeReturns ==
    {[status |-> "error", error |-> ErrTimedOut],
     [status |-> "success", data |-> SpiderContentText]}

\* The files update_agent may find under an identifier at the start.
UpdateFiles == {JsonDump(StoredRecord(<<EmptyPage>>)), JsonList, EmptyDict, Undecodable}

\* Most requests received in one run.
MaxRequests == 2

\* Most items of all_crawl_data.
MaxCrawlItems == 2

\* One item of all_crawl_data: a page_data dict of crawl_website with an
\* error or with the spider's content dict, or a str (a key of the error
\* dict crawl_website returns instead of a list, which extend() adds one by
\* one).
CrawlItems(url) ==
    {[error |-> ErrItem, url |-> url],
     [content |-> SpiderContentEmpty, url |-> url],
     [content |-> SpiderContentText, url |-> url]}

StrItem == [is_str |-> TRUE]

\* What extend(crawl_website(url, 'ai', ...)) adds: the items of the list,
\* or the four keys of the error dict.
CrawlReturns(url) ==
    SeqsUpTo(CrawlItems(url), MaxCrawlItems) \cup {<<StrItem, StrItem, StrItem, StrItem>>}

(***************************************************************************)
(* State.                                                                  *)
(***************************************************************************)
VARIABLES
    rf_content,     \* find_relevant_content: the content_array argument
    rf_query,       \* find_relevant_content: the query argument
    rf_pc,          \* "ready" before the call, "done" after it
    rf_result,      \* the tuple the call returned
    files,          \* SCRAPED_DATA_DIR: identifier -> file
    together_client,\* _together_client: "none" or "client"
    env_api_key,    \* whether Together() can be constructed (TOGETHER_API_KEY)
    ask_pc,         \* where the AI request being handled stands
    ask_req,        \* the request: kind, unique_code, user_query, urls_str
    stored_data,    \* ask_stored: the loaded file
    scraped_results,\* ask_stored: stored_data['results']
    relevant,       \* ask_stored: what find_relevant_content returned
    prompt,         \* ask_stored: prompt_text and content_added
    combined_text,  \* /scrape 'ai': combined_text
    all_crawl_data, \* /scrape 'crawl_ai': all_crawl_data
    ai_response,    \* what ask_llama returned
    response,       \* the response of the request
    ret_line,       \* the line of main.py whose return ended the request
    llm_calls,      \* calls of ask_llama in this request
    provider_calls, \* calls of chat.completions.create in this request
    ask_trace,      \* the checks of ask_stored passed so far, in order
    upd,            \* update_agent: the locals of the request each thread handles
    started,        \* update_agent and store requests received so far
    st,             \* the last request of the other store handlers, and its response
    scrapy_results_queue, \* _scrapy_results_queue: the items put and not yet taken
    scrape_calls,   \* the calls of scrape_website and crawl_website, and their crawls
    drained,        \* the items _execute_scrapy_crawl took off the queue, and for whom
    reactor_lock,   \* _reactor_lock: "free" or the caller that holds it
    reactor_thread, \* _reactor_thread: 0 for None, else the number of the Thread
    threads_alive,  \* the reactor threads that were started and have not ended
    threads_made,   \* how many Thread objects _start_reactor_thread has made
    start_pc,       \* where each caller is in _start_reactor_thread
    scrape_data,    \* scrape_and_store: result.get("data") of one scrape
    page_data,      \* scrape_and_store: page_data["content"] made of it
    page_pc         \* "ready" before the conversion, "done" after it

rfVars == <<rf_content, rf_query, rf_pc, rf_result>>

envVars == <<files, together_client, env_api_key>>

askLocals == <<stored_data, scraped_results, relevant, prompt, combined_text,
               all_crawl_data, ai_response>>

askVars == <<ask_pc, ask_req, askLocals, response, ret_line, llm_calls,
             provider_calls, ask_trace>>

updVars == <<upd, started>>

reactorVars == <<reactor_lock, reactor_thread, threads_alive, threads_made, start_pc>>

queueVars == <<scrapy_results_queue, scrape_calls, drained, reactorVars>>

pageVars == <<scrape_data, page_data, page_pc>>

vars == <<rfVars, envVars, askVars, updVars, st, queueVars, pageVars>>

\* The values of a group of variables while its handlers are not running.
RelevanceIdle ==
    /\ rf_content = <<>>
    /\ rf_query = <<>>
    /\ rf_pc = "idle"
    /\ rf_result = <<<<>>, FALSE>>

NoRequest == [urls_str |-> <<>>, unique_code |-> NoCode, user_query |-> <<>>, kind |-> "none"]

NoResponse == [status |-> 0]

AskIdle ==
    /\ ask_pc = "idle"
    /\ ask_req = NoRequest
    /\ stored_data = PyNone
    /\ scraped_results = <<>>
    /\ relevant = <<<<>>, FALSE>>
    /\ prompt = [prompt_text |-> <<>>, content_added |-> FALSE]
    /\ combined_text = <<>>
    /\ all_crawl_data = <<>>
    /\ ai_response = None
    /\ response = NoResponse
    /\ ret_line = 0
    /\ llm_calls = 0
    /\ provider_calls = 0
    /\ ask_trace = <<>>

EnvIdle ==
    /\ files = [c \in Codes |-> Absent]
    /\ together_client = "none"
    /\ env_api_key = FALSE

\* The threads that handle update_agent requests.
Threads == {"t1", "t2"}

\* The locals of update_agent before anything was assigned; with them the
\* urls scrape_website was called with (scraped) and the files as they were
\* when the request arrived (files_before), which the handler does not keep.
NoUpdate ==
    [status |-> 0,
     urls_str |-> <<>>,
     unique_code |-> NoCode,
     ret_line |-> 0,
     pc |-> "idle",
     loaded |-> FALSE,
     original_agent_name |-> <<>>,
     existing_urls |-> {},
     existing_results |-> <<>>,
     existing_errors |-> <<>>,
     new_urls |-> <<>>,
     urls_to_scrape |-> <<>>,
     current_scrape_results |-> <<>>,
     current_scrape_errors |-> <<>>,
     updated_data_to_store |-> PyNone,
     scraped |-> <<>>,
     files_before |-> [c \in Codes |-> Absent]]

UpdIdle ==
    /\ upd = [t \in Threads |-> NoUpdate]
    /\ started = 0

\* The store handlers before any request: no operation, no response.  With
\* the request are kept the urls scrape_website was called with (calls), the
\* files as they were when it arrived (files_before) and its number among
\* the requests received (number).
NoStore ==
    [urls_str |-> <<>>,
     unique_code |-> NoCode,
     agent_name |-> <<>>,
     response |-> NoResponse,
     ret_line |-> 0,
     files_before |-> [c \in Codes |-> Absent],
     op |-> "none",
     data_to_store |-> PyNone,
     calls |-> <<>>,
     number |-> 0]

StoreIdle == st = NoStore

\* The threads that call scrape_website or crawl_website.
Callers == {"a", "b"}

\* A thread that has not called, and its crawl that does not exist.
NoCall ==
    [error |-> "",
     results |-> <<>>,
     kind |-> "none",
     pc |-> "idle",
     crawl_pc |-> "none",
     produced |-> 0,
     returned |-> <<>>]

\* No caller is in _start_reactor_thread and no reactor thread was made.
ReactorIdle ==
    /\ reactor_lock = "free"
    /\ reactor_thread = 0
    /\ threads_alive = {}
    /\ threads_made = 0
    /\ start_pc = [c \in Callers |-> "idle"]

QueueIdle ==
    /\ scrapy_results_queue = <<>>
    /\ scrape_calls = [c \in Callers |-> NoCall]
    /\ drained = {}
    /\ ReactorIdle

PageIdle ==
    /\ scrape_data = PyNone
    /\ page_data = <<>>
    /\ page_pc = "idle"

(***************************************************************************)
(* SpecRelevance: find_relevant_content applied to every bounded input.    *)
(***************************************************************************)
InitRelevance ==
    /\ rf_content \in ContentArrays
    /\ rf_query \in QuerySet
    /\ rf_pc = "ready"
    /\ rf_result = <<<<>>, FALSE>>
    /\ EnvIdle
    /\ AskIdle
    /\ UpdIdle
    /\ StoreIdle
    /\ QueueIdle
    /\ PageIdle

CallFindRelevantContent ==
    /\ rf_pc = "ready"
    /\ rf_result' = find_relevant_content(rf_content, rf_query)
    /\ rf_pc' = "done"
    /\ UNCHANGED <<rf_content, rf_query, envVars, askVars, updVars, st, queueVars, pageVars>>

NextRelevance == CallFindRelevantContent

SpecRelevance == InitRelevance /\ [][NextRelevance]_vars

(***************************************************************************)
(* SpecAsk: the handlers that answer with ai_used, one request at a time:  *)
(* ask_stored, and /scrape with type 'ai' or 'crawl_ai'.  The files are    *)
(* whatever SCRAPED_DATA_DIR held when the process started.                *)
(***************************************************************************)
InitAsk ==
    /\ files \in [Codes -> AskFiles]
    /\ files["c2"] = Absent
    /\ together_client = "none"
    /\ env_api_key \in BOOLEAN
    /\ AskIdle
    /\ RelevanceIdle
    /\ UpdIdle
    /\ StoreIdle
    /\ QueueIdle
    /\ PageIdle

\* A return statement of a handler: the request ends with this response.
Return(line, resp) ==
    /\ ask_pc' = "done"
    /\ ret_line' = line
    /\ response' = resp

ErrorResponse(status, error) == [status |-> status, error |-> error]

AiResponse(text, ai_used) == [ai_response |-> text, status |-> 200, ai_used |-> ai_used]

\* A request arrives: the locals of the handler are fresh.
BeginRequest(req, pc) ==
    /\ ask_pc \in {"idle", "done"}
    /\ ask_req' = req
    /\ ask_pc' = pc
    /\ stored_data' = PyNone
    /\ scraped_results' = <<>>
    /\ relevant' = <<<<>>, FALSE>>
    /\ prompt' = [prompt_text |-> <<>>, content_added |-> FALSE]
    /\ combined_text' = <<>>
    /\ all_crawl_data' = <<>>
    /\ ai_response' = None
    /\ response' = NoResponse
    /\ ret_line' = 0
    /\ llm_calls' = 0
    /\ provider_calls' = 0
    /\ ask_trace' = <<>>
    /\ UNCHANGED <<rfVars, queueVars, pageVars, st, updVars, envVars>>

\* POST /ask_stored arrives.
AskStart ==
    \E code \in Codes \cup {NoCode}, query \in AskQueries :
        BeginRequest([urls_str |-> <<>>,
                      unique_code |-> code,
                      user_query |-> query,
                      kind |-> "ask_stored"], "ask_validate")

\* ask_stored, the parameter checks.
AskValidate ==
    /\ ask_pc = "ask_validate"
    /\ IF ask_req.unique_code = NoCode
       THEN Return(313, ErrorResponse(400, "unique_code parameter is required"))
       ELSE IF ask_req.user_query = <<>>
       THEN Return(315, ErrorResponse(400, "user_query parameter is required"))
       ELSE ask_pc' = "ask_load" /\ UNCHANGED <<ret_line, response>>
    /\ UNCHANGED <<rfVars, queueVars, pageVars, st, updVars, envVars, ask_req, askLocals, llm_calls, provider_calls, ask_trace>>

\* ask_stored, the load of the file: 404 when nothing (or nothing truthy)
\* was loaded.
AskLoad ==
    /\ ask_pc = "ask_load"
    /\ stored_data' = get_stored_content(files, ask_req.unique_code)
    /\ IF IsFalsy(stored_data')
       THEN /\ Return(322, ErrorResponse(404, "Content not found"))
            /\ UNCHANGED ask_trace
       ELSE /\ ask_pc' = "ask_results"
            /\ ask_trace' = Append(ask_trace, "record_found")
            /\ UNCHANGED <<ret_line, response>>
    /\ UNCHANGED <<rfVars, queueVars, pageVars, st, updVars, envVars, ask_req, scraped_results, relevant, prompt,
                   combined_text, all_crawl_data, ai_response, llm_calls, provider_calls>>

\* ask_stored, the results of the record: a loaded value without .get
\* raises (the handler's except answers 500), an empty list answers "no
\* content available".
AskResults ==
    /\ ask_pc = "ask_results"
    /\ IF "nondict" \in DOMAIN stored_data
       THEN /\ Return(389, ErrorResponse(500, "An internal server error occurred"))
            /\ UNCHANGED <<scraped_results, ask_trace>>
       ELSE /\ scraped_results' = ResultsOf(stored_data)
            /\ IF scraped_results' = <<>>
               THEN /\ Return(328, AiResponse(MsgNoContent, FALSE))
                    /\ UNCHANGED ask_trace
               ELSE /\ ask_pc' = "ask_relevance"
                    /\ ask_trace' = Append(ask_trace, "results_nonempty")
                    /\ UNCHANGED <<ret_line, response>>
    /\ UNCHANGED <<rfVars, queueVars, pageVars, st, updVars, envVars, ask_req, stored_data, relevant, prompt,
                   combined_text, all_crawl_data, ai_response, llm_calls, provider_calls>>

\* The relevance step without its return: the request goes on to the prompt
\* whatever was found.
AskRelevance_NoGate ==
    /\ ask_pc = "ask_relevance"
    /\ relevant' = find_relevant_content(scraped_results, ask_req.user_query)
    /\ ask_pc' = "ask_prompt"
    /\ ask_trace' = Append(ask_trace, "relevant_match")
    /\ UNCHANGED <<ret_line, response>>
    /\ UNCHANGED <<rfVars, queueVars, pageVars, st, updVars, envVars, ask_req, stored_data, scraped_results, prompt,
                   combined_text, all_crawl_data, ai_response, llm_calls, provider_calls>>

\* ask_stored, the relevance filter: no relevant object, or no meaningful
\* match, answers the no-match text.
AskRelevance ==
    /\ ask_pc = "ask_relevance"
    /\ relevant' = find_relevant_content(scraped_results, ask_req.user_query)
    /\ IF relevant'[1] = <<>> \/ ~relevant'[2]
       THEN /\ Return(336, AiResponse(MsgNoMatch, FALSE))
            /\ UNCHANGED ask_trace
       ELSE /\ ask_pc' = "ask_prompt"
            /\ ask_trace' = Append(ask_trace, "relevant_match")
            /\ UNCHANGED <<ret_line, response>>
    /\ UNCHANGED <<rfVars, queueVars, pageVars, st, updVars, envVars, ask_req, stored_data, scraped_results, prompt,
                   combined_text, all_crawl_data, ai_response, llm_calls, provider_calls>>

\* ask_stored, the prompt: no text added answers "issue processing".
AskPrompt ==
    /\ ask_pc = "ask_prompt"
    /\ prompt' = BuildPrompt(relevant[1], ask_req.user_query)
    /\ IF ~prompt'.content_added
       THEN /\ Return(368, AiResponse(MsgNoText, FALSE))
            /\ UNCHANGED ask_trace
       ELSE /\ ask_pc' = "ask_llm"
            /\ ask_trace' = Append(ask_trace, "content_added")
            /\ UNCHANGED <<ret_line, response>>
    /\ UNCHANGED <<rfVars, queueVars, pageVars, st, updVars, envVars, ask_req, stored_data, scraped_results, relevant,
                   combined_text, all_crawl_data, ai_response, llm_calls, provider_calls>>

\* ask_llama(prompt_text): the client is made on first use; when it cannot
\* be made None is returned without a call of the provider; otherwise the
\* provider is called once.
AskLlama ==
    /\ ask_pc = "ask_llm"
    /\ llm_calls' = llm_calls + 1
    /\ \/ /\ together_client = "none" /\ ~env_api_key
          /\ ai_response' = None
          /\ UNCHANGED <<together_client, provider_calls>>
       \/ /\ together_client = "client" \/ env_api_key
          /\ together_client' = "client"
          /\ provider_calls' = provider_calls + 1
          /\ \E outcome \in ProviderOutcomes : ai_response' = LlamaReturn(outcome)
    /\ ask_pc' = "ask_classify"
    /\ UNCHANGED <<rfVars, queueVars, pageVars, st, updVars, files, env_api_key, ask_req, stored_data, scraped_results,
                   relevant, prompt, combined_text, all_crawl_data, response, ret_line,
                   ask_trace>>

\* The last step with ai_used reported false for an unhelpful answer.
AskClassify_UnhelpfulNotUsed ==
    /\ ask_pc = "ask_classify"
    /\ IF IsUnhelpful(ai_response)
       THEN Return(380, AiResponse(MsgUnhelpful, FALSE))
       ELSE Return(383, AiResponse(ai_response, TRUE))
    /\ UNCHANGED <<rfVars, queueVars, pageVars, st, updVars, envVars, ask_req, askLocals, llm_calls, provider_calls, ask_trace>>

\* ask_stored, the answer: the fixed unhelpful text, or the answer of
\* ask_llama as it is.
AskClassify ==
    /\ ask_pc = "ask_classify"
    /\ IF IsUnhelpful(ai_response)
       THEN Return(380, AiResponse(MsgUnhelpful, TRUE))
       ELSE Return(383, AiResponse(ai_response, TRUE))
    /\ UNCHANGED <<rfVars, queueVars, pageVars, st, updVars, envVars, ask_req, askLocals, llm_calls, provider_calls, ask_trace>>

\* /scrape with type 'ai' or 'crawl_ai' arrives.
ScrapeStart ==
    \E kind \in {"ai", "crawl_ai"}, urls_str \in ScrapeUrlStrings, query \in {QEmpty, QArt} :
        BeginRequest([urls_str |-> urls_str,
                      unique_code |-> NoCode,
                      user_query |-> query,
                      kind |-> kind], "scrape_check")

\* scrape, the parameter checks: the url list for both types; the query and
\* the client for 'ai' (for 'crawl_ai' they come after the crawl).
ScrapeCheck ==
    /\ ask_pc = "scrape_check"
    /\ IF ask_req.urls_str = <<>>
       THEN Return(422, ErrorResponse(400, "URL parameter is required"))
       ELSE IF ParseUrls(ask_req.urls_str) = <<>>
       THEN Return(426, ErrorResponse(400, "No valid URLs provided"))
       ELSE IF ask_req.kind = "crawl_ai"
       THEN ask_pc' = "crawl_ai_crawl" /\ UNCHANGED <<ret_line, response>>
       ELSE IF ask_req.user_query = <<>>
       THEN Return(461, ErrorResponse(400, "user_query parameter is required for type 'ai'"))
       ELSE IF together_client = "none"
       THEN Return(463, ErrorResponse(503, "AI functionality is not available"))
       ELSE ask_pc' = "scrape_ai_scrape" /\ UNCHANGED <<ret_line, response>>
    /\ UNCHANGED <<rfVars, queueVars, pageVars, st, updVars, envVars, ask_req, askLocals, llm_calls, provider_calls, ask_trace>>

\* combined_text after the scrape loop from url i on, results[i] being what
\* scrape_website returned for url i.
RECURSIVE CombinedTextFrom(_, _)
CombinedTextFrom(results, i) ==
    IF i > Len(results) THEN <<>>
    ELSE (IF results[i].status = "error" THEN <<>> ELSE CombinedTextOf(results[i].data))
         \o CombinedTextFrom(results, i + 1)

\* scrape 'ai', the scrape loop.
ScrapeAiScrape ==
    /\ ask_pc = "scrape_ai_scrape"
    /\ \E results \in [1..Len(ParseUrls(ask_req.urls_str)) -> ScrapeReturns] :
           combined_text' = CombinedTextFrom(results, 1)
    /\ ask_pc' = "scrape_ai_respond"
    /\ UNCHANGED <<rfVars, queueVars, pageVars, st, updVars, envVars, ask_req, stored_data, scraped_results, relevant, prompt,
                   all_crawl_data, ai_response, response, ret_line, llm_calls,
                   provider_calls, ask_trace>>

\* The end of an ad hoc AI request over the text gathered: no text, no
\* relevant sentence, or one call of ask_llama (the client exists) and its
\* answer.  lines: the lines of the four returns; unhelpful: the fixed text
\* of the call site.
AdhocAnswer(text, lines, no_extract, no_sentence, unhelpful) ==
    IF Strip(text) = <<>>
    THEN /\ Return(lines[1], AiResponse(no_extract, FALSE))
         /\ UNCHANGED <<ai_response, llm_calls, provider_calls>>
    ELSE IF find_relevant_sentences(text, ask_req.user_query) = <<>>
    THEN /\ Return(lines[2], AiResponse(no_sentence, FALSE))
         /\ UNCHANGED <<ai_response, llm_calls, provider_calls>>
    ELSE /\ llm_calls' = llm_calls + 1
         /\ provider_calls' = provider_calls + 1
         /\ \E outcome \in ProviderOutcomes :
                /\ ai_response' = LlamaReturn(outcome)
                /\ IF IsUnhelpful(ai_response')
                   THEN Return(lines[3], AiResponse(unhelpful, TRUE))
                   ELSE Return(lines[4], AiResponse(ai_response', TRUE))

\* scrape 'ai', the answer.
ScrapeAiRespond ==
    /\ ask_pc = "scrape_ai_respond"
    /\ AdhocAnswer(combined_text, <<491, 504, 530, 539>>,
                   MsgNoExtract, MsgNoSentence, MsgUnhelpful)
    /\ UNCHANGED <<rfVars, queueVars, pageVars, st, updVars, envVars, ask_req, stored_data, scraped_results, relevant, prompt,
                   combined_text, all_crawl_data, ask_trace>>

\* all_crawl_data after the crawl loop from url i on.
RECURSIVE CrawlDataFrom(_, _)
CrawlDataFrom(returns, i) ==
    IF i > Len(returns) THEN <<>> ELSE returns[i] \o CrawlDataFrom(returns, i + 1)

\* scrape 'crawl_ai', the crawl loop.
CrawlAiCrawl ==
    /\ ask_pc = "crawl_ai_crawl"
    /\ \E returns \in [1..Len(ParseUrls(ask_req.urls_str)) ->
                          UNION {CrawlReturns(u) : u \in Range(ParseUrls(ask_req.urls_str))}] :
           /\ \A k \in 1..Len(ParseUrls(ask_req.urls_str)) :
                  returns[k] \in CrawlReturns(ParseUrls(ask_req.urls_str)[k])
           /\ all_crawl_data' = CrawlDataFrom(returns, 1)
    /\ ask_pc' = "crawl_ai_respond"
    /\ UNCHANGED <<rfVars, queueVars, pageVars, st, updVars, envVars, ask_req, stored_data, scraped_results, relevant, prompt,
                   combined_text, ai_response, response, ret_line, llm_calls,
                   provider_calls, ask_trace>>

\* The item loop of 'crawl_ai' from item i on: item.get raises on a str
\* item; an item whose url was seen is skipped; an item with content adds
\* its header and then iterates the content dict, whose keys are str, so
\* section.get raises; an item with an error adds no text.
RECURSIVE CrawlScanFrom(_, _, _, _)
CrawlScanFrom(items, i, processed_urls, all_text_content) ==
    IF i > Len(items) THEN [text |-> all_text_content, raised |-> FALSE]
    ELSE IF items[i] = StrItem THEN [text |-> all_text_content, raised |-> TRUE]
    ELSE IF items[i].url \in processed_urls
    THEN CrawlScanFrom(items, i + 1, processed_urls, all_text_content)
    ELSE IF "content" \in DOMAIN items[i]
    THEN IF DOMAIN items[i].content # {}
         THEN [text |-> all_text_content, raised |-> TRUE]
         ELSE CrawlScanFrom(items, i + 1, processed_urls \cup {items[i].url},
                            all_text_content \o <<"\n","\n","-","-","-"," ","C","o","n","t","e","n","t"," ","f","r","o","m"," ">> \o items[i].url \o <<" ","-","-","-","\n">>)
    ELSE CrawlScanFrom(items, i + 1, processed_urls \cup {items[i].url}, all_text_content)

\* scrape 'crawl_ai', the checks and the answer: an exception of the item
\* loop is answered by the handler's except with 500.
CrawlAiRespond ==
    /\ ask_pc = "crawl_ai_respond"
    /\ IF ask_req.user_query = <<>>
       THEN /\ Return(589, ErrorResponse(400, "user_query parameter is required for type 'crawl_ai'"))
            /\ UNCHANGED <<ai_response, llm_calls, provider_calls>>
       ELSE IF together_client = "none"
       THEN /\ Return(591, ErrorResponse(503, "AI functionality is not available"))
            /\ UNCHANGED <<ai_response, llm_calls, provider_calls>>
       ELSE IF CrawlScanFrom(all_crawl_data, 1, {}, <<>>).raised
       THEN /\ Return(692, ErrorResponse(500, "An internal server error occurred"))
            /\ UNCHANGED <<ai_response, llm_calls, provider_calls>>
       ELSE AdhocAnswer(CrawlScanFrom(all_crawl_data, 1, {}, <<>>).text,
                        <<616, 629, 666, 675>>,
                        MsgCrawlNoExtract, MsgCrawlNoSentence, MsgCrawlUnhelpful)
    /\ UNCHANGED <<rfVars, queueVars, pageVars, st, updVars, envVars, ask_req, stored_data, scraped_results, relevant, prompt,
                   combined_text, all_crawl_data, ask_trace>>

NextAsk ==
    \/ AskStart
    \/ AskValidate
    \/ AskLoad
    \/ AskResults
    \/ AskRelevance
    \/ AskPrompt
    \/ AskLlama
    \/ AskClassify
    \/ ScrapeStart
    \/ ScrapeCheck
    \/ ScrapeAiScrape
    \/ ScrapeAiRespond
    \/ CrawlAiCrawl
    \/ CrawlAiRespond

SpecAsk == InitAsk /\ [][NextAsk]_vars

(***************************************************************************)
(* Spec: update_agent handled by two threads over the same files.  Nothing *)
(* in main.py serialises the handlers, so the steps of two requests        *)
(* interleave at the file accesses and at the calls of scrape_website.     *)
(***************************************************************************)
Init ==
    /\ files \in [Codes -> UpdateFiles \cup {Absent}]
    /\ files["c1"] \in UpdateFiles
    /\ files["c2"] = Absent
    /\ together_client = "none"
    /\ env_api_key = FALSE
    /\ UpdIdle
    /\ AskIdle
    /\ RelevanceIdle
    /\ StoreIdle
    /\ QueueIdle
    /\ PageIdle

\* dict.get(key, default)
DictGet(d, key, default) == IF key \in DOMAIN d THEN d[key] ELSE default

\* The return statement at `line` with HTTP status `status` ends the
\* request of thread t, whose locals are u.
UpdateReturn(t, u, line, status) ==
    upd' = [upd EXCEPT ![t] = [u EXCEPT !.pc = "done", !.ret_line = line, !.status = status]]

\* PUT /update_agent/<unique_code> arrives at thread t.
UpdateStart(t) ==
    /\ upd[t].pc \in {"idle", "done"}
    /\ started < MaxRequests
    /\ started' = started + 1
    /\ \E code \in Codes, urls_str \in UpdateUrlStrings :
           upd' = [upd EXCEPT ![t] = [NoUpdate EXCEPT !.pc = "exists",
                                                      !.unique_code = code,
                                                      !.urls_str = urls_str,
                                                      !.files_before = files]]
    /\ UNCHANGED <<rfVars, queueVars, pageVars, st, envVars, askVars>>

\* os.path.exists(filepath): 404 when there is no file.
UpdateCheckExists(t) ==
    /\ upd[t].pc = "exists"
    /\ IF files[upd[t].unique_code] = Absent
       THEN UpdateReturn(t, upd[t], 744, 404)
       ELSE upd' = [upd EXCEPT ![t].pc = "load"]
    /\ UNCHANGED <<rfVars, queueVars, pageVars, st, envVars, askVars, started>>

\* The load of the existing record: 500 when nothing truthy was loaded; a
\* loaded value without .get raises, the except logs it and the handler
\* goes on with the four locals unbound.
UpdateLoad(t) ==
    /\ upd[t].pc = "load"
    /\ LET existing_data == get_stored_content(files, upd[t].unique_code)
       IN  IF IsFalsy(existing_data)
           THEN UpdateReturn(t, upd[t], 750, 500)
           ELSE IF "nondict" \in DOMAIN existing_data
           THEN upd' = [upd EXCEPT ![t].pc = "parse"]
           ELSE upd' = [upd EXCEPT
                   ![t].pc = "parse",
                   ![t].loaded = TRUE,
                   ![t].original_agent_name =
                       DictGet(existing_data, "agent_name", UnknownAgent),
                   ![t].existing_urls = Range(DictGet(existing_data, "urls", <<>>)),
                   ![t].existing_results = DictGet(existing_data, "results", <<>>),
                   ![t].existing_errors = DictGet(existing_data, "errors", <<>>)]
    /\ UNCHANGED <<rfVars, queueVars, pageVars, st, envVars, askVars, started>>

\* The request body: 400 without url or without a url that is not blank;
\* logging original_agent_name unbound raises inside the try, which answers
\* 400 too.  Then the urls to scrape: the new urls, in the order and as
\* often as the request names them, that are not among the existing ones.
UpdateParse(t) ==
    /\ upd[t].pc = "parse"
    /\ IF upd[t].urls_str = <<>>
       THEN UpdateReturn(t, upd[t], 771, 400)
       ELSE IF ParseUrls(upd[t].urls_str) = <<>>
       THEN UpdateReturn(t, upd[t], 774, 400)
       ELSE IF ~upd[t].loaded
       THEN UpdateReturn(t, upd[t], 778, 400)
       ELSE LET new_urls == ParseUrls(upd[t].urls_str)
                NotExisting(url) == url \notin upd[t].existing_urls
            IN  upd' = [upd EXCEPT ![t].pc = "scrape",
                                   ![t].new_urls = new_urls,
                                   ![t].urls_to_scrape = SelectSeq(new_urls, NotExisting)]
    /\ UNCHANGED <<rfVars, queueVars, pageVars, st, envVars, askVars, started>>

\* One turn of the scrape loop: scrape_website is called for the next url
\* and its error or its page is appended.
UpdateScrapeOne(t) ==
    /\ upd[t].pc = "scrape"
    /\ Len(upd[t].scraped) < Len(upd[t].urls_to_scrape)
    /\ LET url == upd[t].urls_to_scrape[Len(upd[t].scraped) + 1]
       IN  \E result \in UpdateScrapeReturns :
               IF result.status = "error"
               THEN upd' = [upd EXCEPT
                       ![t].scraped = Append(@, url),
                       ![t].current_scrape_errors =
                           Append(@, [error |-> result.error, url |-> url])]
               ELSE upd' = [upd EXCEPT
                       ![t].scraped = Append(@, url),
                       ![t].current_scrape_results =
                           Append(@, [content |-> PageContentOf(result.data), url |-> url])]
    /\ UNCHANGED <<rfVars, queueVars, pageVars, st, envVars, askVars, started>>

\* The lists a set may be turned into by list(set).
ListsOfSet(S) == {q \in [1..Cardinality(S) -> S] : Range(q) = S}

\* update_agent storing the new pages and errors in place of the old ones.
UpdateOpen_Replace(t) ==
    /\ upd[t].pc = "scrape"
    /\ Len(upd[t].scraped) = Len(upd[t].urls_to_scrape)
    /\ \E updated_urls \in ListsOfSet(upd[t].existing_urls \cup Range(upd[t].new_urls)) :
           upd' = [upd EXCEPT
               ![t].pc = "dump",
               ![t].updated_data_to_store =
                   [results |-> upd[t].current_scrape_results,
                    errors |-> upd[t].current_scrape_errors,
                    urls |-> updated_urls,
                    agent_name |-> upd[t].original_agent_name]]
    /\ files' = [files EXCEPT ![upd[t].unique_code] = Undecodable]
    /\ UNCHANGED <<rfVars, queueVars, pageVars, st, together_client, env_api_key, askVars, started>>

\* After the loop: the updated record is put together and the file is
\* opened for writing, which empties it.
UpdateOpen(t) ==
    /\ upd[t].pc = "scrape"
    /\ Len(upd[t].scraped) = Len(upd[t].urls_to_scrape)
    /\ \E updated_urls \in ListsOfSet(upd[t].existing_urls \cup Range(upd[t].new_urls)) :
           upd' = [upd EXCEPT
               ![t].pc = "dump",
               ![t].updated_data_to_store =
                   [results |-> upd[t].existing_results \o upd[t].current_scrape_results,
                    errors |-> upd[t].existing_errors \o upd[t].current_scrape_errors,
                    urls |-> updated_urls,
                    agent_name |-> upd[t].original_agent_name]]
    /\ files' = [files EXCEPT ![upd[t].unique_code] = Undecodable]
    /\ UNCHANGED <<rfVars, queueVars, pageVars, st, together_client, env_api_key, askVars, started>>

\* json.dump and the close of the file: the record is in the file, 200.
UpdateDump(t) ==
    /\ upd[t].pc = "dump"
    /\ files' = [files EXCEPT ![upd[t].unique_code] = JsonDump(upd[t].updated_data_to_store)]
    /\ UpdateReturn(t, upd[t], 826, 200)
    /\ UNCHANGED <<rfVars, queueVars, pageVars, st, together_client, env_api_key, askVars, started>>

Next ==
    \E t \in Threads :
        \/ UpdateStart(t)
        \/ UpdateCheckExists(t)
        \/ UpdateLoad(t)
        \/ UpdateParse(t)
        \/ UpdateScrapeOne(t)
        \/ UpdateOpen(t)
        \/ UpdateDump(t)

Spec == Init /\ [][Next]_vars

(***************************************************************************)
(* SpecStore: the handlers that keep the stored records, one request at a  *)
(* time: scrape_and_store, update_agent, delete_agent, get_all_agents and  *)
(* get_stored_file.  A request is handled from its arrival to its response *)
(* before the next one arrives.                                            *)
(***************************************************************************)
\* An agent name with a backslash and a double quote in it.
AgentQuoted == <<"A","\\","\"">>

\* The record scrape_and_store writes for "x,x" when the second scrape
\* timed out.
CreatedRecord ==
    [results |-> <<[content |-> <<>>, url |-> UrlX]>>,
     errors |-> <<[error |-> ErrTimedOut, url |-> UrlX]>>,
     urls |-> <<UrlX, UrlX>>,
     agent_name |-> AgentAcme]

\* The files of SCRAPED_DATA_DIR when the process starts: none, text that
\* is no JSON, JSON that is no dict, a dict without 'urls', a record.
StoreFiles ==
    {Absent, Undecodable, JsonList,
     JsonDump([agent_name |-> AgentAcme]),
     JsonDump(CreatedRecord)}

\* The 'url' and 'agent_name' of the body of POST /scrape_and_store; <<>>
\* also stands for a body without the key.
StoreUrlStrings == {<<>>, <<" ",",">>, UrlX, <<"x",",","y">>, <<"y",",","y">>}
StoreAgentNames == {<<>>, AgentQuoted}

InitStore ==
    /\ files \in [Codes -> StoreFiles]
    /\ files["c2"] \in {Absent, Undecodable}
    /\ together_client = "none"
    /\ env_api_key = FALSE
    /\ UpdIdle
    /\ AskIdle
    /\ RelevanceIdle
    /\ StoreIdle
    /\ QueueIdle
    /\ PageIdle

\* No request is being handled and one more may arrive.
StoreReady ==
    /\ upd["t1"].pc \in {"idle", "done"}
    /\ started < MaxRequests

\* The return statement at `line` ends the request req with this response.
StoreReturn(req, line, resp) ==
    /\ st' = [req EXCEPT !.ret_line = line, !.response = resp, !.number = started + 1]
    /\ started' = started + 1

\* The for loop of scrape_and_store from the i-th url on: scrape_website is
\* called for every url; an error is appended to scrape_errors and the loop
\* continues, a page is appended to results.  returns[i] is what the i-th
\* call returns, calls the urls scrape_website was called with.
RECURSIVE ScrapeLoop(_, _, _, _)
\* The loop left at the first error, after the error was appended.
ScrapeLoop_BreakOnError(urls, returns, i, acc) ==
    IF i > Len(urls) THEN acc
    ELSE LET result == returns[i]
             called == [acc EXCEPT !.calls = Append(@, urls[i])]
         IN  IF result.status = "error"
             THEN [called EXCEPT !.scrape_errors =
                      Append(@, [error |-> result.error, url |-> urls[i]])]
             ELSE ScrapeLoop(urls, returns, i + 1,
                      [called EXCEPT !.results =
                          Append(@, [content |-> PageContentOf(result.data), url |-> urls[i]])])

ScrapeLoop(urls, returns, i, acc) ==
    IF i > Len(urls) THEN acc
    ELSE LET result == returns[i]
             called == [acc EXCEPT !.calls = Append(@, urls[i])]
         IN  IF result.status = "error"
             THEN ScrapeLoop(urls, returns, i + 1,
                      [called EXCEPT !.scrape_errors =
                          Append(@, [error |-> result.error, url |-> urls[i]])])
             ELSE ScrapeLoop(urls, returns, i + 1,
                      [called EXCEPT !.results =
                          Append(@, [content |-> PageContentOf(result.data), url |-> urls[i]])])

\* str(uuid.uuid4()): an identifier no file is stored under.
FreshCodes == {c \in Codes : files[c] = Absent}

\* POST /scrape_and_store.  The write of the file succeeds, or fails before
\* the file is made or after it was made.
ScrapeAndStore ==
    /\ StoreReady
    /\ \E urls_str \in StoreUrlStrings, agent_name \in StoreAgentNames :
         LET req == [NoStore EXCEPT !.op = "scrape_and_store",
                                    !.urls_str = urls_str,
                                    !.agent_name = agent_name,
                                    !.files_before = files]
             urls == ParseUrls(urls_str)
         IN  IF urls_str = <<>>
             THEN /\ StoreReturn(req, 222, ErrorResponse(400, "URL parameter is required"))
                  /\ UNCHANGED files
             ELSE IF agent_name = <<>>
             THEN /\ StoreReturn(req, 224, ErrorResponse(400, "agent_name parameter is required"))
                  /\ UNCHANGED files
             ELSE IF urls = <<>>
             THEN /\ StoreReturn(req, 228, ErrorResponse(400, "No valid URLs provided"))
                  /\ UNCHANGED files
             ELSE \E returns \in [1..Len(urls) -> UpdateScrapeReturns],
                     unique_code \in FreshCodes,
                     written \in {"written", "not opened", "not dumped"} :
                    LET loop == ScrapeLoop(urls, returns, 1,
                                    [results |-> <<>>, calls |-> <<>>, scrape_errors |-> <<>>])
                        data_to_store ==
                            [results |-> loop.results,
                             errors |-> loop.scrape_errors,
                             urls |-> urls,
                             agent_name |-> agent_name]
                        scraped == [req EXCEPT !.unique_code = unique_code,
                                               !.data_to_store = data_to_store,
                                               !.calls = loop.calls]
                    IN  IF written = "written"
                        THEN /\ files' = [files EXCEPT ![unique_code] = JsonDump(data_to_store)]
                             /\ StoreReturn(scraped, 287,
                                    [status |-> 201,
                                     unique_code |-> unique_code,
                                     agent_name |-> agent_name,
                                     scrape_errors |-> loop.scrape_errors])
                        ELSE /\ files' = [files EXCEPT ![unique_code] =
                                            IF written = "not opened" THEN Absent ELSE Undecodable]
                             /\ StoreReturn(scraped, 285,
                                    ErrorResponse(500, "Failed to store scraped data"))
    /\ UNCHANGED <<rfVars, queueVars, pageVars, together_client, env_api_key, askVars, upd>>

\* delete_agent without the check of os.path.exists: os.remove of a file
\* that is not there raises OSError.
DeleteAgent_NoExistsCheck ==
    /\ StoreReady
    /\ \E unique_code \in Codes :
         LET req == [NoStore EXCEPT !.op = "delete_agent",
                                    !.unique_code = unique_code,
                                    !.files_before = files]
         IN  \/ /\ files[unique_code] # Absent
                /\ files' = [files EXCEPT ![unique_code] = Absent]
                /\ StoreReturn(req, 854, [status |-> 200])
             \/ /\ StoreReturn(req, 859, ErrorResponse(500, "Failed to delete agent data file"))
                /\ UNCHANGED files
    /\ UNCHANGED <<rfVars, queueVars, pageVars, together_client, env_api_key, askVars, upd>>

\* DELETE /delete_agent/<unique_code>: 404 when there is no file; else
\* os.remove, which removes the file or raises OSError.
DeleteAgent ==
    /\ StoreReady
    /\ \E unique_code \in Codes :
         LET req == [NoStore EXCEPT !.op = "delete_agent",
                                    !.unique_code = unique_code,
                                    !.files_before = files]
         IN  IF files[unique_code] = Absent
             THEN /\ StoreReturn(req, 850, ErrorResponse(404, "Agent with unique_code not found"))
                  /\ UNCHANGED files
             ELSE \/ /\ files' = [files EXCEPT ![unique_code] = Absent]
                     /\ StoreReturn(req, 854, [status |-> 200])
                  \/ /\ StoreReturn(req, 859, ErrorResponse(500, "Failed to delete agent data file"))
                     /\ UNCHANGED files
    /\ UNCHANGED <<rfVars, queueVars, pageVars, together_client, env_api_key, askVars, upd>>

\* The loop of get_all_agents over the files in the order os.listdir gave
\* them: a file that json.load cannot decode, or whose JSON is no dict with
\* 'agent_name' and 'urls', is skipped (an undecodable file is skipped like
\* a value that is no dict).
RECURSIVE AgentsFrom(_, _, _)
\* The loop ended by the first file that is skipped.
AgentsFrom_StopAtCorrupt(dir, listing, i) ==
    IF i > Len(listing) THEN <<>>
    ELSE LET unique_code == listing[i]
             data == IF dir[unique_code] = Undecodable THEN JsonList
                     ELSE JsonLoad(dir[unique_code])
         IN  IF "agent_name" \in DOMAIN data /\ "urls" \in DOMAIN data
             THEN <<[urls |-> data.urls,
                     agent_name |-> data.agent_name,
                     agent_id |-> unique_code]>> \o AgentsFrom(dir, listing, i + 1)
             ELSE <<>>

AgentsFrom(dir, listing, i) ==
    IF i > Len(listing) THEN <<>>
    ELSE LET unique_code == listing[i]
             data == IF dir[unique_code] = Undecodable THEN JsonList
                     ELSE JsonLoad(dir[unique_code])
         IN  IF "agent_name" \in DOMAIN data /\ "urls" \in DOMAIN data
             THEN <<[urls |-> data.urls,
                     agent_name |-> data.agent_name,
                     agent_id |-> unique_code]>> \o AgentsFrom(dir, listing, i + 1)
             ELSE AgentsFrom(dir, listing, i + 1)

\* GET /agents.
GetAllAgents ==
    /\ StoreReady
    /\ \E listing \in ListsOfSet({c \in Codes : files[c] # Absent}) :
         StoreReturn([NoStore EXCEPT !.op = "get_all_agents", !.files_before = files],
                     724, [status |-> 200, agents |-> AgentsFrom(files, listing, 1)])
    /\ UNCHANGED <<rfVars, queueVars, pageVars, envVars, askVars, upd>>

\* The response of get_stored_file: the loaded content when it is truthy,
\* else 404.
StoredFileResponse(dir, unique_code) ==
    LET content == get_stored_content(dir, unique_code)
    IN  IF IsFalsy(content)
        THEN ErrorResponse(404, "Content not found for unique_code")
        ELSE [content |-> content, status |-> 200, unique_code |-> unique_code]

\* GET /get_stored_file/<unique_code>.
GetStoredFile ==
    /\ StoreReady
    /\ \E unique_code \in Codes :
         LET resp == StoredFileResponse(files, unique_code)
         IN  StoreReturn([NoStore EXCEPT !.op = "get_stored_file",
                                         !.unique_code = unique_code,
                                         !.files_before = files],
                         IF resp.status = 200 THEN 874 ELSE 877, resp)
    /\ UNCHANGED <<rfVars, queueVars, pageVars, envVars, askVars, upd>>

\* PUT /update_agent/<unique_code> is handled by one thread, step by step.
NextStore ==
    \/ ScrapeAndStore
    \/ DeleteAgent
    \/ GetAllAgents
    \/ GetStoredFile
    \/ UpdateStart("t1")
    \/ UpdateCheckExists("t1")
    \/ UpdateLoad("t1")
    \/ UpdateParse("t1")
    \/ UpdateScrapeOne("t1")
    \/ UpdateOpen("t1")
    \/ UpdateDump("t1")

SpecStore == InitStore /\ [][NextStore]_vars

(***************************************************************************)
(* SpecDelete: delete_agent handled by one thread while another thread is  *)
(* inside update_agent.  Nothing in main.py serialises the two handlers;   *)
(* no record is created, so a file that is there was there at the start or *)
(* was written by update_agent.                                            *)
(***************************************************************************)
InitDelete ==
    /\ files \in [Codes -> {Absent, JsonDump(CreatedRecord)}]
    /\ files["c1"] # Absent
    /\ together_client = "none"
    /\ env_api_key = FALSE
    /\ UpdIdle
    /\ AskIdle
    /\ RelevanceIdle
    /\ StoreIdle
    /\ QueueIdle
    /\ PageIdle

\* DELETE /delete_agent/<unique_code> between two steps of update_agent:
\* 404 when there is no file; else os.remove, which removes the file or
\* raises OSError.
DeleteAgentMeanwhile ==
    /\ started < MaxRequests
    /\ \E unique_code \in Codes :
         LET req == [NoStore EXCEPT !.op = "delete_agent",
                                    !.unique_code = unique_code,
                                    !.files_before = files]
         IN  IF files[unique_code] = Absent
             THEN /\ StoreReturn(req, 850, ErrorResponse(404, "Agent with unique_code not found"))
                  /\ UNCHANGED files
             ELSE \/ /\ files' = [files EXCEPT ![unique_code] = Absent]
                     /\ StoreReturn(req, 854, [status |-> 200])
                  \/ /\ StoreReturn(req, 859, ErrorResponse(500, "Failed to delete agent data file"))
                     /\ UNCHANGED files
    /\ UNCHANGED <<rfVars, queueVars, pageVars, together_client, env_api_key, askVars, upd>>

NextDelete ==
    \/ DeleteAgentMeanwhile
    \/ UpdateStart("t1")
    \/ UpdateCheckExists("t1")
    \/ UpdateLoad("t1")
    \/ UpdateParse("t1")
    \/ UpdateScrapeOne("t1")
    \/ UpdateOpen("t1")
    \/ UpdateDump("t1")

SpecDelete == InitDelete /\ [][NextDelete]_vars

(***************************************************************************)
(* SpecQueue: scrape_website and crawl_website called by two threads.  The *)
(* crawls run in the one reactor thread and put their items on the one     *)
(* module-level queue; the calling threads wait and then take the items.   *)
(***************************************************************************)
\* Most items one crawl puts on the queue.
MaxQueueItems == 2

\* The error text of crawl_website when its wait times out.
ErrCrawlTimedOut == "Crawling operation timed out."

\* The k-th item the crawl started for caller c yields.
Item(c, k) == [n |-> k, crawl |-> c]

InitQueue ==
    /\ QueueIdle
    /\ EnvIdle
    /\ AskIdle
    /\ RelevanceIdle
    /\ UpdIdle
    /\ StoreIdle
    /\ PageIdle

\* scrape_website or crawl_website is called: the crawl is handed to the
\* reactor with callFromThread and the caller waits for completion_event.
CallScrape(c) ==
    /\ scrape_calls[c].pc = "idle"
    /\ \E kind \in {"scrape_website", "crawl_website"} :
           scrape_calls' = [scrape_calls EXCEPT
               ![c] = [NoCall EXCEPT !.pc = "waiting", !.kind = kind,
                                     !.crawl_pc = "scheduled"]]
    /\ UNCHANGED <<scrapy_results_queue, drained, reactorVars, rfVars, envVars, askVars, updVars, st, pageVars>>

\* The reactor runs _execute_scrapy_crawl up to its yield: every item on
\* the queue is taken off and dropped, then the crawl is started.
ExecuteScrapyCrawl(c) ==
    /\ scrape_calls[c].crawl_pc = "scheduled"
    /\ drained' = drained \cup
           {[item |-> scrapy_results_queue[i], by |-> c] :
                i \in 1..Len(scrapy_results_queue)}
    /\ scrapy_results_queue' = <<>>
    /\ scrape_calls' = [scrape_calls EXCEPT ![c].crawl_pc = "running"]
    /\ UNCHANGED <<reactorVars, rfVars, envVars, askVars, updVars, st, pageVars>>

\* JsonWriterPipeline.process_item: an item of the running crawl is put on
\* the queue.
ProcessItem(c) ==
    /\ scrape_calls[c].crawl_pc = "running"
    /\ scrape_calls[c].produced < MaxQueueItems
    /\ scrapy_results_queue' =
           Append(scrapy_results_queue, Item(c, scrape_calls[c].produced + 1))
    /\ scrape_calls' = [scrape_calls EXCEPT ![c].produced = @ + 1]
    /\ UNCHANGED <<drained, reactorVars, rfVars, envVars, askVars, updVars, st, pageVars>>

\* The crawl ends: its Deferred fires the callback or the errback, either
\* of which sets completion_event.
CrawlEnds(c) ==
    /\ scrape_calls[c].crawl_pc = "running"
    /\ \E ended \in {"finished", "failed"} :
           scrape_calls' = [scrape_calls EXCEPT ![c].crawl_pc = ended]
    /\ UNCHANGED <<scrapy_results_queue, drained, reactorVars, rfVars, envVars, askVars, updVars, st, pageVars>>

\* completion_event.wait returns without the event set: the call returns
\* the timeout error and its crawl goes on.
WaitTimesOut(c) ==
    /\ scrape_calls[c].pc = "waiting"
    /\ scrape_calls[c].crawl_pc \in {"scheduled", "running"}
    /\ scrape_calls' = [scrape_calls EXCEPT
           ![c].pc = "done",
           ![c].error = IF scrape_calls[c].kind = "scrape_website"
                        THEN ErrTimedOut ELSE ErrCrawlTimedOut]
    /\ UNCHANGED <<scrapy_results_queue, drained, reactorVars, rfVars, envVars, askVars, updVars, st, pageVars>>

\* completion_event.wait returns with the event set: the error of a failed
\* crawl is returned, else the caller goes on to the queue.
WaitReturns(c) ==
    /\ scrape_calls[c].pc = "waiting"
    /\ scrape_calls[c].crawl_pc \in {"finished", "failed"}
    /\ IF scrape_calls[c].crawl_pc = "failed"
       THEN scrape_calls' = [scrape_calls EXCEPT ![c].pc = "done", ![c].error = ErrCrawlFailed]
       ELSE scrape_calls' = [scrape_calls EXCEPT ![c].pc = "read"]
    /\ UNCHANGED <<scrapy_results_queue, drained, reactorVars, rfVars, envVars, askVars, updVars, st, pageVars>>

\* One turn of "while not _scrapy_results_queue.empty()": the caller takes
\* the item at the head of the queue.
TakeItem(c) ==
    /\ scrape_calls[c].pc = "read"
    /\ scrapy_results_queue # <<>>
    /\ scrape_calls' = [scrape_calls EXCEPT ![c].results = Append(@, Head(scrapy_results_queue))]
    /\ scrapy_results_queue' = Tail(scrapy_results_queue)
    /\ UNCHANGED <<drained, reactorVars, rfVars, envVars, askVars, updVars, st, pageVars>>

\* The queue is empty: scrape_website returns the first item it took, or
\* the error that nothing was scraped; crawl_website returns every item.
ReturnItems(c) ==
    /\ scrape_calls[c].pc = "read"
    /\ scrapy_results_queue = <<>>
    /\ scrape_calls' = [scrape_calls EXCEPT
           ![c].pc = "done",
           ![c].returned = IF scrape_calls[c].kind = "crawl_website"
                           THEN scrape_calls[c].results
                           ELSE IF scrape_calls[c].results = <<>> THEN <<>>
                           ELSE <<scrape_calls[c].results[1]>>,
           ![c].error = IF scrape_calls[c].kind = "scrape_website"
                           /\ scrape_calls[c].results = <<>>
                        THEN ErrNoData ELSE ""]
    /\ UNCHANGED <<scrapy_results_queue, drained, reactorVars, rfVars, envVars, askVars, updVars, st, pageVars>>

NextQueue ==
    \E c \in Callers :
        \/ CallScrape(c)
        \/ ExecuteScrapyCrawl(c)
        \/ ProcessItem(c)
        \/ CrawlEnds(c)
        \/ WaitTimesOut(c)
        \/ WaitReturns(c)
        \/ TakeItem(c)
        \/ ReturnItems(c)

SpecQueue == InitQueue /\ [][NextQueue]_vars

(***************************************************************************)
(* SpecSequential: the calls of scrape_website and crawl_website made one  *)
(* after another, as one handler makes them in its loop: a call begins     *)
(* when no other call is waiting or reading.  The crawl of a call that     *)
(* timed out goes on in the reactor.                                       *)
(***************************************************************************)
CallScrapeInTurn(c) ==
    /\ \A d \in Callers \ {c} : scrape_calls[d].pc \in {"idle", "done"}
    /\ CallScrape(c)

NextSequential ==
    \E c \in Callers :
        \/ CallScrapeInTurn(c)
        \/ ExecuteScrapyCrawl(c)
        \/ ProcessItem(c)
        \/ CrawlEnds(c)
        \/ WaitTimesOut(c)
        \/ WaitReturns(c)
        \/ TakeItem(c)
        \/ ReturnItems(c)

SpecSequential == InitQueue /\ [][NextSequential]_vars

(***************************************************************************)
(* SpecReactor: _start_reactor_thread called by two threads, as every call *)
(* of scrape_website and crawl_website begins.  A reactor thread ends when *)
(* reactor.run returns or raises.                                          *)
(***************************************************************************)
\* Most Thread objects made in one run.
MaxThreads == 4

InitReactor ==
    /\ QueueIdle
    /\ EnvIdle
    /\ AskIdle
    /\ RelevanceIdle
    /\ UpdIdle
    /\ StoreIdle
    /\ PageIdle

\* The caller moves on in _start_reactor_thread.
StartStep(c, pc) == start_pc' = [start_pc EXCEPT ![c] = pc]

\* scrape_website or crawl_website calls _start_reactor_thread.
EnterStartReactorThread(c) ==
    /\ start_pc[c] = "idle"
    /\ threads_made < MaxThreads
    /\ StartStep(c, "acquire")
    /\ UNCHANGED <<reactor_lock, reactor_thread, threads_alive, threads_made,
                   scrapy_results_queue, scrape_calls, drained,
                   rfVars, envVars, askVars, updVars, st, pageVars>>

\* "with _reactor_lock" entered whoever holds the lock.
AcquireReactorLock_NoWait(c) ==
    /\ start_pc[c] = "acquire"
    /\ reactor_lock' = c
    /\ StartStep(c, "check")
    /\ UNCHANGED <<reactor_thread, threads_alive, threads_made,
                   scrapy_results_queue, scrape_calls, drained,
                   rfVars, envVars, askVars, updVars, st, pageVars>>

\* "with _reactor_lock": the caller waits until the lock is free and takes
\* it.
AcquireReactorLock(c) ==
    /\ start_pc[c] = "acquire"
    /\ reactor_lock = "free"
    /\ reactor_lock' = c
    /\ StartStep(c, "check")
    /\ UNCHANGED <<reactor_thread, threads_alive, threads_made,
                   scrapy_results_queue, scrape_calls, drained,
                   rfVars, envVars, askVars, updVars, st, pageVars>>

\* "_reactor_thread is None or not _reactor_thread.is_alive()".
CheckReactorThread(c) ==
    /\ start_pc[c] = "check"
    /\ IF reactor_thread = 0 \/ reactor_thread \notin threads_alive
       THEN StartStep(c, "make")
       ELSE StartStep(c, "release")
    /\ UNCHANGED <<reactor_lock, reactor_thread, threads_alive, threads_made,
                   scrapy_results_queue, scrape_calls, drained,
                   rfVars, envVars, askVars, updVars, st, pageVars>>

\* _reactor_thread = threading.Thread(...): a Thread that is not alive yet.
MakeReactorThread(c) ==
    /\ start_pc[c] = "make"
    /\ threads_made' = threads_made + 1
    /\ reactor_thread' = threads_made + 1
    /\ StartStep(c, "start")
    /\ UNCHANGED <<reactor_lock, threads_alive,
                   scrapy_results_queue, scrape_calls, drained,
                   rfVars, envVars, askVars, updVars, st, pageVars>>

\* _reactor_thread.start(): the thread is alive when start returns.
StartReactorThread(c) ==
    /\ start_pc[c] = "start"
    /\ threads_alive' = threads_alive \cup {reactor_thread}
    /\ StartStep(c, "release")
    /\ UNCHANGED <<reactor_lock, reactor_thread, threads_made,
                   scrapy_results_queue, scrape_calls, drained,
                   rfVars, envVars, askVars, updVars, st, pageVars>>

\* The with block is left: the lock is released (by the caller that holds
\* it) and _start_reactor_thread returns.
ReleaseReactorLock(c) ==
    /\ start_pc[c] = "release"
    /\ reactor_lock' = IF reactor_lock = c THEN "free" ELSE reactor_lock
    /\ StartStep(c, "idle")
    /\ UNCHANGED <<reactor_thread, threads_alive, threads_made,
                   scrapy_results_queue, scrape_calls, drained,
                   rfVars, envVars, askVars, updVars, st, pageVars>>

\* _reactor_loop: reactor.run returns or raises and the thread ends.
ReactorLoopEnds ==
    /\ \E thread \in threads_alive : threads_alive' = threads_alive \ {thread}
    /\ UNCHANGED <<reactor_lock, reactor_thread, threads_made, start_pc,
                   scrapy_results_queue, scrape_calls, drained,
                   rfVars, envVars, askVars, updVars, st, pageVars>>

NextReactor ==
    \/ ReactorLoopEnds
    \/ \E c \in Callers :
        \/ EnterStartReactorThread(c)
        \/ AcquireReactorLock(c)
        \/ CheckReactorThread(c)
        \/ MakeReactorThread(c)
        \/ StartReactorThread(c)
        \/ ReleaseReactorLock(c)

SpecReactor == InitReactor /\ [][NextReactor]_vars

(***************************************************************************)
(* SpecPage: the conversion of what one scrape returned into the content   *)
(* of a stored page, as scrape_and_store and update_agent do it, applied   *)
(* to every bounded value of result.get("data").                           *)
(***************************************************************************)
\* Most sections of one scrape result.
MaxSections == 2

\* The headings of a section: a dict with an empty or a non-empty 'text',
\* an empty or a non-empty str.  No heading, or None, is a section without
\* the key.
SectionHeadings ==
    {[text |-> <<>>, tag |-> "h1"], [text |-> <<"A","r","t">>, tag |-> "h1"],
     [str |-> <<>>], [str |-> <<"H">>]}

\* The paragraphs of a section that has the key.
SectionParagraphs == {<<>>, <<<<"f","i","n","e">>>>}

\* The sections: with or without heading, with or without paragraphs.
PageSections ==
    {<<>>}
    \cup {[heading |-> h] : h \in SectionHeadings}
    \cup {[paragraphs |-> p] : p \in SectionParagraphs}
    \cup {[heading |-> h, paragraphs |-> p] : h \in SectionHeadings, p \in SectionParagraphs}

\* result.get("data"): None, a str, the dict of the spider, or a dict with
\* 'sections'.
PageInputs ==
    {PyNone, [str |-> <<>>], [str |-> <<"t">>], SpiderContentEmpty, SpiderContentText}
    \cup {[sections |-> q] : q \in SeqsUpTo(PageSections, MaxSections)}

InitPage ==
    /\ scrape_data \in PageInputs
    /\ page_data = <<>>
    /\ page_pc = "ready"
    /\ EnvIdle
    /\ AskIdle
    /\ RelevanceIdle
    /\ UpdIdle
    /\ StoreIdle
    /\ QueueIdle

\* page_data["content"] is filled from scrape_data.
ConvertPage ==
    /\ page_pc = "ready"
    /\ page_data' = PageContentOf(scrape_data)
    /\ page_pc' = "done"
    /\ UNCHANGED <<scrape_data, rfVars, envVars, askVars, updVars, st, queueVars>>

NextPage == ConvertPage

SpecPage == InitPage /\ [][NextPage]_vars

(***************************************************************************)
(* SpecBoundary: where the handlers raise and where they return.  Whether  *)
(* a statement raises depends on the JSON type of the value it is given,   *)
(* so a stored file is described here by the type of its top-level value   *)
(* and, for a dict, of the values under 'urls', 'results' and 'errors'.    *)
(* One request is handled at a time.                                       *)
(***************************************************************************)
\* The top-level value of a file: no file, text json.load cannot decode, or
\* a JSON value (numbers and strings are the truthy ones; a dict has at
\* least 'agent_name').
TopKinds ==
    {"absent", "undecodable", "null", "empty list", "empty dict",
     "list", "str", "number", "dict"}
TruthyTops == {"list", "str", "number", "dict"}

\* The value under a key of the dict: no such key, or a JSON value; a list
\* holds strings, a list of lists holds lists.
FieldKinds == {"missing", "list", "null", "number", "str", "dict"}
UrlsKinds == FieldKinds \cup {"list of lists"}

FileKind(top, urls, results, errors) ==
    [results |-> results, errors |-> errors, urls |-> urls, top |-> top]
NoFile == FileKind("absent", "missing", "missing", "missing")
WrittenFile == FileKind("dict", "list", "list", "list")
FileKinds ==
    {FileKind(top, "missing", "missing", "missing") : top \in TopKinds \ {"dict"}}
    \cup {FileKind("dict", urls, results, errors) :
              urls \in UrlsKinds, results \in FieldKinds, errors \in FieldKinds}

\* How a handler is left: by the return statement at `line`, or by an
\* exception raised at `line` that no except clause of the handler catches.
Returned(line, status) == [status |-> status, line |-> line, raised |-> FALSE]
Raised(line) == [status |-> 0, line |-> line, raised |-> TRUE]

\* set(v) raises TypeError for None, for a number and for a list with an
\* unhashable member; .get(key, []) gives [] for a missing key.
SetRaises(kind) == kind \in {"null", "number", "list of lists"}
\* v + [..] raises TypeError unless v is a list.
ConcatRaises(kind) == kind \notin {"missing", "list"}

\* The locals the first try block of update_agent has bound when it is
\* left: .get of a value that is no dict raises before the first
\* assignment, set() after it; the except clause logs and goes on.
BoundByLoad(file) ==
    IF file.top # "dict" THEN {}
    ELSE IF SetRaises(file.urls) THEN {"original_agent_name"}
    ELSE {"original_agent_name", "existing_urls", "existing_results", "existing_errors"}

\* update_agent: the statements outside its try blocks are the
\* comprehension over existing_urls (line 781), the scrape loop and the
\* merge (lines 811 to 813).
update_agent_exits(file, urls_str) ==
    IF file.top = "absent" THEN {Returned(744, 404)}
    ELSE IF file.top \notin TruthyTops THEN {Returned(750, 500)}
    ELSE IF urls_str = <<>> THEN {Returned(771, 400)}
    ELSE IF ParseUrls(urls_str) = <<>> THEN {Returned(774, 400)}
    ELSE IF "original_agent_name" \notin BoundByLoad(file) THEN {Returned(778, 400)}
    ELSE IF "existing_urls" \notin BoundByLoad(file) THEN {Raised(781)}
    ELSE IF ConcatRaises(file.results) THEN {Raised(812)}
    ELSE IF ConcatRaises(file.errors) THEN {Raised(813)}
    ELSE {Returned(826, 200)}

\* ask_stored: its whole body is in one try block whose except clause
\* returns 500.  What a list under 'results' leads to depends on its
\* members.
ask_stored_exits(file, unique_code, user_query) ==
    IF unique_code = NoCode THEN {Returned(313, 400)}
    ELSE IF user_query = <<>> THEN {Returned(315, 400)}
    ELSE IF file.top \notin TruthyTops THEN {Returned(322, 404)}
    ELSE IF file.top # "dict" THEN {Returned(389, 500)}
    ELSE IF file.results \in {"missing", "null"} THEN {Returned(328, 200)}
    ELSE IF file.results \in {"str", "dict"} THEN {Returned(336, 200)}
    ELSE IF file.results = "number"
    THEN IF QueryTokens(user_query) = <<>>
         THEN {Returned(336, 200)} ELSE {Returned(389, 500)}
    ELSE {Returned(328, 200), Returned(336, 200), Returned(380, 200),
          Returned(383, 200), Returned(389, 500)}

\* scrape_and_store: one try block around the body, one around the write.
scrape_and_store_exits(urls_str, agent_name) ==
    IF urls_str = <<>> THEN {Returned(222, 400)}
    ELSE IF agent_name = <<>> THEN {Returned(224, 400)}
    ELSE IF ParseUrls(urls_str) = <<>> THEN {Returned(228, 400)}
    ELSE {Returned(285, 500), Returned(287, 201)}

\* delete_agent: os.remove is in a try block.
delete_agent_exits(file) ==
    IF file.top = "absent" THEN {Returned(850, 404)}
    ELSE {Returned(854, 200), Returned(859, 500)}

\* get_stored_file: get_stored_content catches what open and json.load
\* raise.
get_stored_file_exits(file) ==
    IF file.top \in TruthyTops THEN {Returned(874, 200)} ELSE {Returned(877, 404)}

\* The request `op` is left by `exit`.
BoundaryExit(op, unique_code, urls_str, exit) ==
    /\ started < MaxRequests
    /\ started' = started + 1
    /\ st' = [NoStore EXCEPT !.op = op,
                             !.unique_code = unique_code,
                             !.urls_str = urls_str,
                             !.ret_line = exit.line,
                             !.response = exit,
                             !.number = started + 1]

InitBoundary ==
    /\ files \in [Codes -> FileKinds]
    /\ files["c2"] = NoFile
    /\ together_client = "none"
    /\ env_api_key = FALSE
    /\ UpdIdle
    /\ AskIdle
    /\ RelevanceIdle
    /\ StoreIdle
    /\ QueueIdle
    /\ PageIdle

BoundaryAskStored ==
    /\ \E unique_code \in Codes \cup {NoCode}, user_query \in {<<>>, QStop, QArt} :
         \E exit \in ask_stored_exits(IF unique_code = NoCode THEN NoFile
                                      ELSE files[unique_code],
                                      unique_code, user_query) :
            BoundaryExit("ask_stored", unique_code, <<>>, exit)
    /\ UNCHANGED <<rfVars, queueVars, pageVars, envVars, askVars, upd>>

BoundaryScrapeAndStore ==
    /\ \E urls_str \in StoreUrlStrings, agent_name \in StoreAgentNames,
          unique_code \in {c \in Codes : files[c] = NoFile} :
         \E exit \in scrape_and_store_exits(urls_str, agent_name) :
            /\ BoundaryExit("scrape_and_store", unique_code, urls_str, exit)
            /\ files' = IF exit.line = 287
                        THEN [files EXCEPT ![unique_code] = WrittenFile]
                        ELSE files
    /\ UNCHANGED <<rfVars, queueVars, pageVars, together_client, env_api_key, askVars, upd>>

BoundaryUpdateAgent ==
    /\ \E unique_code \in Codes, urls_str \in UpdateUrlStrings :
         \E exit \in update_agent_exits(files[unique_code], urls_str) :
            /\ BoundaryExit("update_agent", unique_code, urls_str, exit)
            /\ files' = IF exit.line = 826
                        THEN [files EXCEPT ![unique_code] = WrittenFile]
                        ELSE files
    /\ UNCHANGED <<rfVars, queueVars, pageVars, together_client, env_api_key, askVars, upd>>

BoundaryDeleteAgent ==
    /\ \E unique_code \in Codes :
         \E exit \in delete_agent_exits(files[unique_code]) :
            /\ BoundaryExit("delete_agent", unique_code, <<>>, exit)
            /\ files' = IF exit.line = 854
                        THEN [files EXCEPT ![unique_code] = NoFile]
                        ELSE files
    /\ UNCHANGED <<rfVars, queueVars, pageVars, together_client, env_api_key, askVars, upd>>

BoundaryGetStoredFile ==
    /\ \E unique_code \in Codes :
         \E exit \in get_stored_file_exits(files[unique_code]) :
            BoundaryExit("get_stored_file", unique_code, <<>>, exit)
    /\ UNCHANGED <<rfVars, queueVars, pageVars, envVars, askVars, upd>>

\* get_all_agents: the loop over the files is in a try block that skips a
\* file, the whole body in one that returns 500.
BoundaryGetAllAgents ==
    /\ BoundaryExit("get_all_agents", NoCode, <<>>, Returned(724, 200))
    /\ UNCHANGED <<rfVars, queueVars, pageVars, envVars, askVars, upd>>

NextBoundary ==
    \/ BoundaryAskStored
    \/ BoundaryScrapeAndStore
    \/ BoundaryUpdateAgent
    \/ BoundaryDeleteAgent
    \/ BoundaryGetStoredFile
    \/ BoundaryGetAllAgents

SpecBoundary == InitBoundary /\ [][NextBoundary]_vars

(***************************************************************************)
(* SpecSentences: find_relevant_sentences applied to every bounded input.  *)
(* The text is in rf_content, the query in rf_query, the returned list in  *)
(* rf_result.                                                              *)
(***************************************************************************)
\* Most pieces a text is put together from.
MaxPieces == 3

\* The pieces: sentences that end in ".", "!" or "?", words without such an
\* end, and the empty piece, which leaves two blanks or a blank at the
\* start or the end of the text.
TextPieces ==
    {<<"A","r","t",".">>, <<"a","r","t">>, <<"P","a","r","t","y","?">>,
     <<"t","h","e"," ","a","r","t","s","!">>, <<"i","s",".">>, <<>>}

\* The texts: up to MaxPieces pieces with a blank between them.
SentenceTexts == {Join(pieces, <<" ">>) : pieces \in SeqsUpTo(TextPieces, MaxPieces)}

QIsThe == <<"i","s"," ","t","h","e">>
SentenceQueries == {QEmpty, QPunct, QIsThe, QStop, QArt, QArtCaps, QParty, QFine}

InitSentences ==
    /\ rf_content \in SentenceTexts
    /\ rf_query \in SentenceQueries
    /\ rf_pc = "ready"
    /\ rf_result = <<>>
    /\ EnvIdle
    /\ AskIdle
    /\ UpdIdle
    /\ StoreIdle
    /\ QueueIdle
    /\ PageIdle

CallFindRelevantSentences ==
    /\ rf_pc = "ready"
    /\ rf_result' = find_relevant_sentences(rf_content, rf_query)
    /\ rf_pc' = "done"
    /\ UNCHANGED <<rf_content, rf_query, envVars, askVars, updVars, st, queueVars, pageVars>>

NextSentences == CallFindRelevantSentences

SpecSentences == InitSentences /\ [][NextSentences]_vars

(***************************************************************************)
(* Claims about find_relevant_content (checked under SpecRelevance).       *)
(***************************************************************************)
\* The \w runs of a text, lower-cased: its whole words.
WordsOf(text) == Range(ReFindallWords(Lower(text)))

\* Every word token of the query (an alphanumeric \w run, lower-cased) is a
\* stop-word.
OnlyStopWords(query) ==
    \A w \in Range(ReFindallWords(query)) : IsAlnum(w) => Lower(w) \in stop_words

\* The whole words of a page's heading and paragraph texts, each text taken
\* on its own.
PageWords(content_obj) ==
    UNION {(IF content_obj.content[k].heading = None
            THEN {} ELSE WordsOf(content_obj.content[k].heading))
           \cup UNION {WordsOf(content_obj.content[k].paragraphs[j]) :
                           j \in 1..Len(content_obj.content[k].paragraphs)} :
           k \in 1..Len(content_obj.content)}

\* C4: a query whose word tokens are all stop-words gets (empty list, false)
\* for every content collection, pages holding those stop-words included.
C4_StopWordQueryFindsNothing ==
    (rf_pc = "done" /\ OnlyStopWords(rf_query)) => rf_result = <<<<>>, FALSE>>

C4_Witness ==
    /\ rf_pc = "done"
    /\ rf_query = QStop
    /\ rf_content = <<StopPage, ArtPage>>
    /\ rf_result = <<<<>>, FALSE>>

\* C5: an empty content collection gets (empty list, false) for every query.
C5_EmptyContentFindsNothing ==
    (rf_pc = "done" /\ rf_content = <<>>) => rf_result = <<<<>>, FALSE>>

C5_Witness ==
    /\ rf_pc = "done"
    /\ rf_content = <<>>
    /\ rf_query = QArt
    /\ rf_result = <<<<>>, FALSE>>

\* C6: a page is in the returned list only if a non-stop-word token of the
\* query equals a whole word of one of its lower-cased heading or paragraph
\* texts; "art" against a page holding only "party" marks nothing.
C6_RelevantOnlyByWholeWord ==
    rf_pc = "done" =>
        /\ \A k \in 1..Len(rf_result[1]) :
               /\ IsContentObj(rf_result[1][k])
               /\ \E token \in WordsOf(rf_query) \ stop_words :
                      token \in PageWords(rf_result[1][k])
        /\ (rf_query = QArt /\ rf_content = <<PartyPage>>) => rf_result[1] = <<>>

C6_Witness ==
    /\ rf_pc = "done"
    /\ rf_query = QArt
    /\ rf_content = <<PartyPage, ArtPage>>
    /\ rf_result[1] = <<ArtPage>>

\* C7: the returned flag is true exactly when the returned list is not
\* empty, which is exactly when some page matched a non-stop-word token.
C7_FlagIffSomePageMatched ==
    rf_pc = "done" =>
        /\ rf_result[2] <=> (rf_result[1] # <<>>)
        /\ rf_result[2] <=>
               \E k \in 1..Len(rf_content) :
                   /\ IsContentObj(rf_content[k])
                   /\ (WordsOf(rf_query) \ stop_words) \cap PageWords(rf_content[k]) # {}

C7_Witness ==
    /\ rf_pc = "done"
    /\ rf_query = QFine
    /\ rf_content = <<StopPage, PunctPage>>
    /\ rf_result = <<<<PunctPage>>, TRUE>>

\* r is c with some members left out: same members, same order, unchanged.
IsSubsequence(r, c) ==
    \E idx \in [1..Len(r) -> 1..Len(c)] :
        /\ \A k \in 1..Len(r) : r[k] = c[idx[k]]
        /\ \A j, k \in 1..Len(r) : j < k => idx[j] < idx[k]

\* C8: the returned list is a subsequence of the input collection: input
\* order, each input occurrence at most once, every page unchanged.
C8_RelevantIsSubsequence ==
    rf_pc = "done" => IsSubsequence(rf_result[1], rf_content)

C8_Witness ==
    /\ rf_pc = "done"
    /\ rf_query = QArt
    /\ rf_content = <<ArtPage, PartyPage, PunctPage>>
    /\ rf_result[1] = <<ArtPage, PunctPage>>


(***************************************************************************)
(* Claims about ask_stored and the ad hoc AI handlers (SpecAsk).           *)
(***************************************************************************)
AskedFile == files[ask_req.unique_code]
AskedData == JsonLoad(AskedFile)

\* The line of the return that ends an ask_stored request before ask_llama,
\* worked out from the request and the files alone; 0 when every check
\* passes.
FirstFailingCheck ==
    IF ask_req.unique_code = NoCode THEN 313
    ELSE IF ask_req.user_query = <<>> THEN 315
    ELSE IF AskedFile \in {Absent, Undecodable, EmptyDict} THEN 322
    ELSE IF AskedFile = JsonList THEN 389
    ELSE IF "results" \notin DOMAIN AskedData THEN 328
    ELSE IF AskedData.results = <<>> THEN 328
    ELSE IF \/ find_relevant_content(AskedData.results, ask_req.user_query)[1] = <<>>
            \/ ~find_relevant_content(AskedData.results, ask_req.user_query)[2] THEN 336
    ELSE IF ~BuildPrompt(find_relevant_content(AskedData.results, ask_req.user_query)[1],
                         ask_req.user_query).content_added THEN 368
    ELSE 0

\* C2: in ask_stored, ask_llama is called at most once per request, and only
\* after the record was found, its results were non-empty, the relevance
\* filter returned a non-empty list with a meaningful match, and the prompt
\* had text added, in this order; a request whose earlier check fails ends
\* at that check's return without a call of ask_llama or of the provider.
C2_LlmOnceAfterAllChecks ==
    ask_req.kind = "ask_stored" =>
        /\ llm_calls <= 1
        /\ provider_calls <= llm_calls
        /\ llm_calls = 1 =>
               /\ FirstFailingCheck = 0
               /\ ask_trace = <<"record_found", "results_nonempty",
                                "relevant_match", "content_added">>
        /\ (ask_pc = "done" /\ FirstFailingCheck # 0) =>
               /\ ret_line = FirstFailingCheck
               /\ llm_calls = 0
               /\ provider_calls = 0
        /\ (ask_pc = "done" /\ FirstFailingCheck = 0) =>
               /\ llm_calls = 1
               /\ ret_line \in {380, 383}

C2_Witness ==
    /\ ask_req.kind = "ask_stored"
    /\ ask_pc = "done"
    /\ llm_calls = 1
    /\ provider_calls = 1
    /\ ret_line = 383

\* C3: a finished request whose response carries ai_used reports true
\* exactly when ask_llama was called during the request, whether the answer
\* was None (the client could not be made, the provider raised or gave no
\* choices), unhelpful or helpful.
C3_AiUsedIffLlamaCalled ==
    (ask_pc = "done" /\ "ai_used" \in DOMAIN response) =>
        (response.ai_used <=> llm_calls >= 1)

C3_Witness ==
    /\ ask_pc = "done"
    /\ "ai_used" \in DOMAIN response
    /\ response.ai_used
    /\ llm_calls = 1
    /\ provider_calls = 0
    /\ ai_response = None
    /\ response.ai_response = MsgUnhelpful

\* The helpful answers in the words of the quality gate: not None, at least
\* 15 characters once trimmed, none of the five phrases in its lower case.
HelpfulAnswer(text) ==
    /\ text # None
    /\ Len(Strip(text)) >= 15
    /\ \A phrase \in {PhraseSorry, PhraseCannot, PhraseNoInfo, PhraseBased,
                      PhraseNotAvailable} : ~Contains(phrase, Lower(text))

CanonicalUnhelpful == IF ask_req.kind = "crawl_ai" THEN MsgCrawlUnhelpful ELSE MsgUnhelpful

\* C9: once ask_llama has been called, the answer of the finished request
\* is what ask_llama returned, unchanged, when that is not None, has a
\* trimmed length of at least 15 and holds none of the five phrases in its
\* lower case, and is the fixed unhelpful text of the call site otherwise;
\* 14 trimmed characters are unhelpful, 15 without a phrase are helpful.
C9_RawAnswerIffHelpful ==
    (ask_pc = "done" /\ llm_calls >= 1) =>
        /\ HelpfulAnswer(ai_response) =>
               /\ response.ai_response = ai_response
               /\ ret_line \in {383, 539, 675}
        /\ ~HelpfulAnswer(ai_response) =>
               /\ response.ai_response = CanonicalUnhelpful
               /\ ret_line \in {380, 530, 666}
        /\ ai_response = XRun(14) => response.ai_response = CanonicalUnhelpful
        /\ ai_response = XRun(15) => response.ai_response = XRun(15)

C9_Witness ==
    /\ ask_pc = "done"
    /\ llm_calls = 1
    /\ ai_response = XRun(15)
    /\ response.ai_response = XRun(15)
    /\ ret_line = 383


(***************************************************************************)
(* Claims about update_agent (Spec).                                       *)
(***************************************************************************)
\* C1: when two update_agent requests on the same unique_code have both
\* completed with 200, the stored record holds the pages and the errors
\* each of them appended and its urls hold the new urls of both.
C1_NoLostUpdate ==
    \A t1, t2 \in Threads :
        (/\ t1 # t2
         /\ upd[t1].pc = "done" /\ upd[t1].status = 200
         /\ upd[t2].pc = "done" /\ upd[t2].status = 200
         /\ upd[t1].unique_code = upd[t2].unique_code) =>
            LET record == get_stored_content(files, upd[t1].unique_code)
            IN  /\ "results" \in DOMAIN record
                /\ \A t \in {t1, t2} :
                       /\ IsSubsequence(upd[t].current_scrape_results, record.results)
                       /\ IsSubsequence(upd[t].current_scrape_errors, record.errors)
                       /\ Range(upd[t].new_urls) \subseteq Range(record.urls)

\* C10: an update request that completed with 200 called scrape_website for
\* exactly the new urls that were not stored, once each.
C10_ScrapesDifferenceOnce ==
    \A t \in Threads :
        (upd[t].pc = "done" /\ upd[t].status = 200) =>
            /\ Range(upd[t].scraped) = Range(ParseUrls(upd[t].urls_str)) \ upd[t].existing_urls
            /\ Len(upd[t].scraped) = Cardinality(Range(upd[t].scraped))

(***************************************************************************)
(* Claims about the stored records (SpecStore).                            *)
(***************************************************************************)
\* The request received last was an update, which thread t1 handled, and
\* it ended with 200.
UpdateSucceeded ==
    /\ st.number < started
    /\ upd["t1"].pc = "done"
    /\ upd["t1"].status = 200

\* The record under the identifier of that request before it arrived, and
\* the record there now.
RecordBeforeUpdate == get_stored_content(upd["t1"].files_before, upd["t1"].unique_code)
RecordAfterUpdate == get_stored_content(files, upd["t1"].unique_code)

\* C11: after a successful update that ran without interference the stored
\* record has the old urls united with the requested new urls (as a set),
\* the old results followed by the newly scraped pages and the old errors
\* followed by the new errors, every old page and error at its old index;
\* a key the old record lacks counts as empty.
C11_SequentialUpdateAppends ==
    UpdateSucceeded =>
        LET old_urls == DictGet(RecordBeforeUpdate, "urls", <<>>)
            old_results == DictGet(RecordBeforeUpdate, "results", <<>>)
            old_errors == DictGet(RecordBeforeUpdate, "errors", <<>>)
            requested == ParseUrls(upd["t1"].urls_str)
        IN  /\ Range(RecordAfterUpdate.urls) = Range(old_urls) \cup Range(requested)
            /\ RecordAfterUpdate.results = old_results \o upd["t1"].current_scrape_results
            /\ RecordAfterUpdate.errors = old_errors \o upd["t1"].current_scrape_errors
            /\ \A i \in 1..Len(old_results) : RecordAfterUpdate.results[i] = old_results[i]
            /\ \A i \in 1..Len(old_errors) : RecordAfterUpdate.errors[i] = old_errors[i]
            /\ Len(upd["t1"].current_scrape_results) + Len(upd["t1"].current_scrape_errors)
                   = Len(upd["t1"].scraped)
            /\ \A i \in 1..Len(upd["t1"].current_scrape_results) :
                   upd["t1"].current_scrape_results[i].url \in Range(requested) \ Range(old_urls)

\* The second of two updates in a row added a page and an error to a record
\* that held two pages and an error.
C11_Witness ==
    /\ UpdateSucceeded
    /\ started = 2
    /\ "results" \in DOMAIN RecordBeforeUpdate
    /\ Len(RecordBeforeUpdate.results) = 2
    /\ Len(RecordBeforeUpdate.errors) = 1
    /\ Len(upd["t1"].current_scrape_results) = 1
    /\ Len(RecordAfterUpdate.errors) = 2
    /\ Len(RecordAfterUpdate.results) = 3

\* The request received last was a scrape_and_store that answered 201.
CreateSucceeded ==
    /\ st.number = started
    /\ st.op = "scrape_and_store"
    /\ st.response.status = 201

\* C12: after scrape_and_store answered 201 with an identifier, and before
\* any other request, get_stored_content of that identifier returns a
\* record whose agent_name, urls, results and errors are the values the
\* handler stored: the agent_name and the urls of the request, the pages
\* and the errors of its scrapes.
C12_CreateThenReadRoundTrip ==
    CreateSucceeded =>
        LET read == get_stored_content(files, st.response.unique_code)
        IN  /\ DOMAIN read = {"agent_name", "urls", "results", "errors"}
            /\ read.agent_name = st.agent_name
            /\ read.urls = ParseUrls(st.urls_str)
            /\ read.results = st.data_to_store.results
            /\ read.errors = st.data_to_store.errors
            /\ read.errors = st.response.scrape_errors

\* A record with a page, an error and a name that needs escaping was read
\* back.
C12_Witness ==
    /\ CreateSucceeded
    /\ st.agent_name = AgentQuoted
    /\ files[st.response.unique_code] # JsonDump(CreatedRecord)
    /\ Len(get_stored_content(files, st.response.unique_code).results) = 1
    /\ Len(get_stored_content(files, st.response.unique_code).errors) = 1

\* The request received last was a delete_agent.
DeleteAnswered == st.number = started /\ st.op = "delete_agent"

\* C13: delete_agent of an identifier no file is stored under answers 404
\* and leaves every file as it was: the same identifiers are stored, with
\* the same content.
C13_DeleteUnknownNoEffect ==
    (DeleteAnswered /\ st.files_before[st.unique_code] = Absent) =>
        /\ st.response.status = 404
        /\ st.ret_line = 850
        /\ files = st.files_before

\* An unknown identifier was deleted while a record was stored under the
\* other one.
C13_Witness ==
    /\ DeleteAnswered
    /\ st.files_before[st.unique_code] = Absent
    /\ \E c \in Codes : "results" \in DOMAIN get_stored_content(files, c)

\* The request received last was a get_all_agents.
ListAnswered == st.number = started /\ st.op = "get_all_agents"

\* A file that decodes to a dict with 'agent_name' and 'urls'; any other
\* file is corrupt.
WellFormed(c) ==
    /\ files[c] \notin {Absent, Undecodable, JsonList}
    /\ {"agent_name", "urls"} \subseteq DOMAIN JsonLoad(files[c])
Corrupt(c) == files[c] # Absent /\ ~WellFormed(c)

\* C14: get_all_agents answers with success however many corrupt files
\* there are, and its list has exactly one summary for every well-formed
\* record, with the identifier, the agent_name and the urls of the record,
\* and none for any other file.
C14_ListSkipsCorrupt ==
    ListAnswered =>
        LET agents == st.response.agents
        IN  /\ st.response.status = 200
            /\ Len(agents) = Cardinality({c \in Codes : WellFormed(c)})
            /\ \A c \in Codes :
                   WellFormed(c) =>
                       \E i \in 1..Len(agents) :
                           /\ agents[i].agent_id = c
                           /\ agents[i].agent_name = JsonLoad(files[c]).agent_name
                           /\ agents[i].urls = JsonLoad(files[c]).urls
            /\ \A i \in 1..Len(agents) : WellFormed(agents[i].agent_id)

\* The directory listed held a corrupt file and a well-formed record.
C14_Witness ==
    /\ ListAnswered
    /\ \E c \in Codes : Corrupt(c)
    /\ \E c \in Codes : WellFormed(c)
    /\ Len(st.response.agents) = 1

\* The request received last was a get_stored_file.
GetAnswered == st.number = started /\ st.op = "get_stored_file"

\* C15: a file that is there but is no well-formed record is reported
\* apart from a file that is not there: the response of get_stored_file
\* for it differs from the response for the same identifier with no file.
C15_CorruptDistinctFromNotFound ==
    (GetAnswered /\ Corrupt(st.unique_code)) =>
        st.response # StoredFileResponse([files EXCEPT ![st.unique_code] = Absent],
                                         st.unique_code)

\* The urls of a list of pages or of error entries, in order.
UrlsOf(entries) == [i \in 1..Len(entries) |-> entries[i].url]

\* The members of urls whose index is marked b, in order.
RECURSIVE Marked(_, _, _, _)
Marked(urls, mark, b, i) ==
    IF i > Len(urls) THEN <<>>
    ELSE (IF mark[i] = b THEN <<urls[i]>> ELSE <<>>) \o Marked(urls, mark, b, i + 1)

\* C16: a scrape_and_store that created a record called scrape_website for
\* every requested url, in request order, whichever of the calls failed,
\* and every occurrence of a url in the request is in exactly one of the
\* record's results (as a page) and errors (as url and error), both in
\* request order.
C16_EveryUrlInResultsOrErrors ==
    CreateSucceeded =>
        LET urls == ParseUrls(st.urls_str)
            read == get_stored_content(files, st.response.unique_code)
        IN  /\ st.calls = urls
            /\ \E mark \in [1..Len(urls) -> BOOLEAN] :
                   /\ UrlsOf(read.results) = Marked(urls, mark, TRUE, 1)
                   /\ UrlsOf(read.errors) = Marked(urls, mark, FALSE, 1)
            /\ \A i \in 1..Len(read.results) : "content" \in DOMAIN read.results[i]
            /\ \A i \in 1..Len(read.errors) : "error" \in DOMAIN read.errors[i]

\* The first of two urls failed and the second one was scraped and stored.
C16_Witness ==
    /\ CreateSucceeded
    /\ ParseUrls(st.urls_str) = <<UrlX, UrlY>>
    /\ UrlsOf(get_stored_content(files, st.response.unique_code).errors) = <<UrlX>>
    /\ UrlsOf(get_stored_content(files, st.response.unique_code).results) = <<UrlY>>

\* One of the error entries is that of a scrape that timed out.
TimedOutIn(errors) == \E i \in 1..Len(errors) : errors[i].error = ErrTimedOut

\* C17: a scrape_and_store or update_agent request during which a scrape
\* timed out answers with a failure and leaves every file as it was when
\* the request arrived: no record is created and none is rewritten.
C17_TimeoutFailsWithoutMutation ==
    /\ (/\ st.number = started
        /\ st.op = "scrape_and_store"
        /\ st.calls # <<>>
        /\ TimedOutIn(st.data_to_store.errors)) =>
           /\ st.response.status >= 400
           /\ files = st.files_before
    /\ (/\ st.number < started
        /\ upd["t1"].pc = "done"
        /\ TimedOutIn(upd["t1"].current_scrape_errors)) =>
           /\ upd["t1"].status >= 400
           /\ files = upd["t1"].files_before

\* C19: in every stored record every url of urls has at least one page in
\* results; a url whose every scrape failed is not in urls.
C19_UrlsHaveAPage ==
    \A c \in Codes :
        WellFormed(c) =>
            LET record == JsonLoad(files[c])
            IN  Range(record.urls) \subseteq Range(UrlsOf(DictGet(record, "results", <<>>)))

\* The paragraph the spider extracted where a scrape succeeded.
SpiderText == SpiderContentText.static_sections[1].paragraphs[1]

\* The page has a unit with that paragraph.
HasSpiderText(page) ==
    \E k \in 1..Len(page.content) :
        \E j \in 1..Len(page.content[k].paragraphs) :
            page.content[k].paragraphs[j] = SpiderText

\* C29: when scrape_website succeeded in beautify mode for a url and the
\* spider extracted a section with text, the page scrape_and_store or
\* update_agent persists for the url has a content sequence that is not
\* empty and holds that text.
C29_PersistedPageHoldsScrapedText ==
    /\ CreateSucceeded =>
           LET results == get_stored_content(files, st.unique_code).results
           IN  \A i \in 1..Len(results) :
                   results[i].content # <<>> /\ HasSpiderText(results[i])
    /\ UpdateSucceeded =>
           \A i \in 1..Len(upd["t1"].current_scrape_results) :
               /\ upd["t1"].current_scrape_results[i].content # <<>>
               /\ HasSpiderText(upd["t1"].current_scrape_results[i])

\* The urls of the record whose scrape failed and that have no page: what
\* the record held before the update that was received last.
FailedUrlsBeforeUpdate ==
    Range(UrlsOf(DictGet(RecordBeforeUpdate, "errors", <<>>)))
        \ Range(UrlsOf(DictGet(RecordBeforeUpdate, "results", <<>>)))

\* C30: after a store or an update in which the scrape of a url failed, a
\* later update_agent request that names the url scrapes it again.
C30_FailedUrlScrapedAgain ==
    UpdateSucceeded =>
        \A url \in Range(upd["t1"].new_urls) \cap FailedUrlsBeforeUpdate :
            url \in Range(upd["t1"].scraped)

(***************************************************************************)
(* Claims about the result queue (SpecQueue).                              *)
(***************************************************************************)
\* The items the crawl started for caller c has put on the queue, in order.
ProducedBy(c) == [k \in 1..scrape_calls[c].produced |-> Item(c, k)]

\* C18: under every interleaving of calls of scrape_website and
\* crawl_website, the items a call took off the queue after its crawl had
\* finished are exactly the items of the crawl it started, what it returns
\* is among them, and no item is taken off the queue or dropped on behalf
\* of another call.
C18_ResultIsolation ==
    /\ \A c \in Callers :
           (/\ scrape_calls[c].pc = "done"
            /\ scrape_calls[c].error \notin {ErrTimedOut, ErrCrawlTimedOut, ErrCrawlFailed}) =>
               /\ scrape_calls[c].results = ProducedBy(c)
               /\ \A i \in 1..Len(scrape_calls[c].returned) :
                      scrape_calls[c].returned[i].crawl = c
    /\ \A c \in Callers :
           \A i \in 1..Len(scrape_calls[c].results) : scrape_calls[c].results[i].crawl = c
    /\ \A d \in drained : d.item.crawl = d.by

RefundAsked ==
    /\ ask_req.kind = "ask_stored"
    /\ ask_pc = "done"
    /\ ask_req.user_query = QRefund
    /\ ask_req.unique_code # NoCode
    /\ AskedFile \notin {Absent, Undecodable, EmptyDict, JsonList}
    /\ "results" \in DOMAIN AskedData
    /\ AskedData.results # <<>>

\* No page of the asked record has the text anywhere in it.
NowhereInPages(word) ==
    \A k \in 1..Len(AskedData.results) :
        IsContentObj(AskedData.results[k]) =>
            ~Contains(word, Lower(PageText(AskedData.results[k])))

\* No page of the asked record has the word as a whole word.
NoPageHasWord(word) ==
    \A k \in 1..Len(AskedData.results) :
        IsContentObj(AskedData.results[k]) => word \notin PageWords(AskedData.results[k])

\* C24 as claimed: the query "what is the refund policy" against stored
\* content that nowhere mentions "refund" is answered with the no-match text
\* and ai_used false, without a call of ask_llama.
C24_NoRefundNoLlm ==
    (RefundAsked /\ NowhereInPages(<<"r","e","f","u","n","d">>)) =>
        /\ response = AiResponse(MsgNoMatch, FALSE)
        /\ llm_calls = 0

\* C24 amended: the same holds of stored content that has neither "refund"
\* nor "policy" as a whole word.
C24_NoRefundNoPolicyNoLlm ==
    (RefundAsked /\ NoPageHasWord(<<"r","e","f","u","n","d">>) /\ NoPageHasWord(<<"p","o","l","i","c","y">>)) =>
        /\ response = AiResponse(MsgNoMatch, FALSE)
        /\ llm_calls = 0
        /\ provider_calls = 0

C24_Witness ==
    /\ RefundAsked
    /\ AskedData.results = <<RefundsPage, PartyPage>>
    /\ ret_line = 336
    /\ response = AiResponse(MsgNoMatch, FALSE)

\* The prompt lines that are a marker of the given kind.
MarkersAt(lines, kind) == {k \in 1..Len(lines) : lines[k].line = kind}

\* Every "--- Content from {url} ---" line is followed by an "--- End of
\* Content ---" line before the next "--- Content from" line.
MarkersClosed(lines) ==
    \A k \in MarkersAt(lines, "ContentFrom") :
        \E m \in MarkersAt(lines, "EndOfContent") :
            /\ m > k
            /\ \A j \in MarkersAt(lines, "ContentFrom") : ~(k < j /\ j < m)

\* C28: whenever find_relevant_content returned a non-empty list for the
\* stored results, the prompt loop of ask_stored adds text for at least one
\* unit; the "issue processing the stored content" return is never taken;
\* and every "--- Content from {url} ---" line of the prompt is followed by
\* its "--- End of Content ---" line.
C28_RelevantPagesAddText ==
    ask_req.kind = "ask_stored" =>
        /\ relevant[1] # <<>> =>
               BuildPrompt(relevant[1], ask_req.user_query).content_added
        /\ (relevant[1] # <<>> /\ ask_pc # "ask_prompt") => prompt.content_added
        /\ ret_line # 368
        /\ MarkersClosed(prompt.prompt_text)
        /\ Cardinality(MarkersAt(prompt.prompt_text, "ContentFrom"))
               = (IF ask_pc = "ask_prompt" THEN 0 ELSE Len(relevant[1]))

C28_Witness ==
    /\ ask_req.kind = "ask_stored"
    /\ ask_pc = "done"
    /\ ret_line = 383
    /\ relevant[1] = <<ArtPage, PunctPage>>
    /\ prompt.content_added
    /\ Cardinality(MarkersAt(prompt.prompt_text, "EndOfContent")) = 2

(***************************************************************************)
(* Claims about the exits of the handlers (checked under SpecBoundary).    *)
(***************************************************************************)
\* C21: whatever the stored file holds, every request to scrape_and_store,
\* ask_stored, update_agent, delete_agent, get_stored_file and
\* get_all_agents is left by a return statement of the handler, never by an
\* exception that escapes it.
C21_NoExceptionEscapes ==
    st.op # "none" => ~st.response.raised

(***************************************************************************)
(* Claims about find_relevant_sentences (checked under SpecSentences).     *)
(***************************************************************************)
\* The words of the query that are meaningful to find_relevant_sentences.
MeaningfulSentenceWords(query) == WordsOf(query) \ sentence_stop_words

\* The sentence has a meaningful word of the query among its whole words.
HasMeaningfulWord(sentence) ==
    MeaningfulSentenceWords(rf_query) \cap WordsOf(sentence) # {}

\* C22: find_relevant_sentences returns exactly the sentences of the text
\* that hold a meaningful word of the query as a whole word, whatever the
\* case, in the order of the text and as often as the text has them; it
\* returns the empty list when the query has no meaningful word.
C22_ExactlyTheMatchingSentences ==
    rf_pc = "done" =>
        LET matching == SelectSeq(SplitSentences(rf_content), HasMeaningfulWord)
        IN  /\ rf_result = [i \in 1..Len(matching) |-> Strip(matching[i])]
            /\ MeaningfulSentenceWords(rf_query) = {} => rf_result = <<>>

C22_Witness ==
    /\ rf_pc = "done"
    /\ rf_query = QArtCaps
    /\ Len(SplitSentences(rf_content)) = 3
    /\ Len(rf_result) = 2
    /\ rf_result[1] = rf_result[2]

(***************************************************************************)
(* Claims about delete_agent beside update_agent (checked under            *)
(* SpecDelete).                                                            *)
(***************************************************************************)
\* C25: once delete_agent has removed the record of an identifier, there is
\* no record under that identifier in any later state, also when an
\* update_agent request for the identifier had passed its check that the
\* file exists before the delete.
C25_DeletedStaysDeleted ==
    (st.op = "delete_agent" /\ st.ret_line = 854) => files[st.unique_code] = Absent

(***************************************************************************)
(* Claims about calls made one after another (checked under                *)
(* SpecSequential).                                                        *)
(***************************************************************************)
\* C26: with the calls made strictly one after another, what a call of
\* scrape_website or crawl_website returns was produced by the crawl this
\* call started, never by the crawl of an earlier call: an item that the
\* crawl of a timed-out call puts on the queue later is not returned by a
\* later call.
C26_NoDataOfEarlierCrawl ==
    \A c \in Callers :
        scrape_calls[c].pc = "done" =>
            \A i \in 1..Len(scrape_calls[c].returned) :
                scrape_calls[c].returned[i].crawl = c

(***************************************************************************)
(* Claims about the reactor thread (checked under SpecReactor).            *)
(***************************************************************************)
\* C27: under every interleaving of the calls, _start_reactor_thread starts
\* a reactor thread only when none is alive: two live reactor threads never
\* coexist, and a live one is the thread _reactor_thread names.
C27_AtMostOneReactorThread ==
    /\ Cardinality(threads_alive) <= 1
    /\ threads_alive \subseteq {reactor_thread}
    /\ \A c \in Callers :
           start_pc[c] \in {"make", "start"} => threads_alive = {}

\* A second thread was started after the first had ended, while the other
\* caller waits for the lock.
C27_Witness ==
    /\ threads_made = 2
    /\ threads_alive = {2}
    /\ \E c \in Callers : start_pc[c] = "acquire" /\ reactor_lock \notin {"free", c}

====
